---- MODULE Spec2Model ----
(***************************************************************************)
(* Verification model of HazeSDK: utils/cache.py (Cache),                  *)
(* core/memory_manager.py (MemoryManager), core/offset_scanner.py          *)
(* (OffsetScanner) and the continuous input writer of main.py (HazeBot).   *)
(*                                                                         *)
(* Python values are encoded as records [t, v]: t is the type tag and v a  *)
(* sequence of integers (one integer for a number, the bytes of a bytes    *)
(* object, the code units of a str, the components of a tuple).            *)
(* time.time() is the integer variable now; one unit is one tick.          *)
(***************************************************************************)
EXTENDS Integers, Sequences, FiniteSets, TLC

\* ------------------------------------------------------------------------
\* Bounds of the model
\* ------------------------------------------------------------------------
MaxTime == 3
MaxTTL == 2
MaxGets == 3
MaxThreadOps == 2
MaxThreadTime == 1
MaxCalls == 2
MaxWriterCalls == 3

\* ------------------------------------------------------------------------
\* Python values
\* ------------------------------------------------------------------------
PyNone == [t |-> "None", v |-> <<>>]
PyInt(n) == [t |-> "int", v |-> <<n>>]
PyBool(b) == [t |-> "bool", v |-> <<IF b THEN 1 ELSE 0>>]

\* ttl=None of Cache.get(key, ttl=None)
NoTTL == -1

VARIABLES
    cache,        \* Cache._cache: key -> CacheEntry(value, timestamp)
    hits,         \* Cache._hits
    misses,       \* Cache._misses
    default_ttl,  \* Cache.default_ttl
    now,          \* time.time()
    call,         \* the last call made by the caller and what it returned
    setlog,       \* per key, the caller's last set that no invalidate, clear or miss followed
    gets,         \* the get calls the caller made since construction or the last clear
    tpc,          \* per thread, the statement of the Cache method it is at
    tloc,         \* per thread, the call in progress, its locals and its outcome
    laststore,    \* the thread whose Cache.set stored last (0: none)
    thist,        \* the threads' calls so far: get calls returned, clear calls made
    mcall,        \* the last MemoryManager call made and what it returned
    perf,         \* MemoryManager._perf_monitor: timings recorded per name
    ncalls,       \* the number of MemoryManager calls made
    write_running,   \* HazeBot.write_running
    write_thread,    \* HazeBot.write_thread: the Thread object (0: None)
    input_address,   \* HazeBot.input_address (0: None)
    current_inputs,  \* HazeBot.current_inputs
    cpc,          \* per calling thread, the statement of the HazeBot method it is at
    cloc,         \* per calling thread, the call in progress and its outcome
    lpc,          \* per Thread object, the statement of _continuous_write_loop it is at
    ldata,        \* per Thread object, the local data of _continuous_write_loop
    target,       \* the last write that landed at the input address of the process
    created,      \* the number of Thread objects constructed
    image,        \* the bytes of the RocketLeague.exe module in the process
    fpc,          \* the statement of find_offsets the scanner is at
    gnames_address,    \* gnames_address of find_offsets
    gobjects_address,  \* gobjects_address of find_offsets
    tried,        \* the chains tried so far, with the match and the address each yielded
    offsets,      \* the pair find_offsets returned
    sdk,          \* the HazeSDK under construction: the stage of __init__ it is at, its offsets
    probe,        \* the last call of a method of the scanner made on its own, and its outcome
    region,       \* the memory of the process at one address: its bytes, its readable words
    acall,        \* what the callers of the MemoryManager got from that memory so far
    stats,        \* PerformanceMonitor._stats: operation name -> TimingStats
    enabled,      \* PerformanceMonitor._enabled
    samples,      \* per operation name, the timings the monitor recorded since the last reset
    pcall,        \* the last call made on the monitor or the diagnostics, and what it returned
    subscribers,  \* EventManager._subscribers: event type -> list of callbacks
    ecall,        \* the last call made on the EventManager and what came of it
    bot_enabled,  \* HazeBot.bot_enabled
    last_toggle_time,  \* HazeBot._last_toggle_time, <<>> while the attribute is not there
    clock,        \* time.time() of HazeBot, in tenths of a second
    kcall         \* the last handler of HazeBot that ran, and what it did

cacheVars == <<cache, hits, misses, default_ttl, now>>
seqVars == <<call, setlog, gets>>
thrVars == <<tpc, tloc, laststore, thist>>
memVars == <<mcall, perf, ncalls>>
botVars == <<write_running, write_thread, input_address, current_inputs, cpc, cloc, lpc, ldata,
             target, created>>

\* what the callers of the sequential Cache, the threads on the Cache, the
\* callers of the MemoryManager and the threads of HazeBot leave alone
locVars == <<image, fpc, gnames_address, gobjects_address, tried, offsets, sdk, probe>>
accVars == <<region, acall>>
monVars == <<stats, enabled, samples, pcall>>
evtVars == <<subscribers, ecall>>
togVars == <<bot_enabled, last_toggle_time, clock, kcall>>
hostVars == <<evtVars, togVars>>
notCache == <<hostVars, monVars, thrVars, memVars, botVars, locVars, accVars>>
notThreads == <<hostVars, monVars, memVars, botVars, locVars, accVars>>
notMemory == <<hostVars, monVars, thrVars, botVars, locVars, accVars>>
notWriter == <<hostVars, monVars, seqVars, thrVars, mcall, ncalls, locVars, accVars>>
notLocator == <<hostVars, monVars, seqVars, thrVars, mcall, ncalls, botVars, accVars>>
notAccessor == <<hostVars, seqVars, thrVars, mcall, ncalls, botVars, locVars, monVars>>
notMonitor == <<hostVars, cacheVars, seqVars, thrVars, memVars, botVars, locVars, accVars>>
notDiagnostics == <<hostVars, default_ttl, now, seqVars, thrVars, botVars, locVars, accVars>>
vars == <<cache, hits, misses, default_ttl, now, call, setlog, gets, tpc, tloc, laststore, thist,
          mcall, perf, ncalls, write_running, write_thread, input_address, current_inputs,
          cpc, cloc, lpc, ldata, target, created, image, fpc, gnames_address,
          gobjects_address, tried, offsets, sdk, probe, region, acall, stats, enabled, samples, pcall,
          subscribers, ecall, bot_enabled, last_toggle_time, clock, kcall>>

\* ------------------------------------------------------------------------
\* utils/cache.py
\* ------------------------------------------------------------------------
\* keys and values the callers of the sequential cache use
CacheKeys == {"k1", "k2"}
CacheValues == {PyInt(1), PyInt(2)}
TTLs == 0 .. MaxTTL

CacheEntry(value, timestamp) == [value |-> value, timestamp |-> timestamp]

EmptyDict == [k \in {} |-> PyNone]

\* del d[key]
DictDel(d, key) == [k \in DOMAIN d \ {key} |-> d[k]]

\* d[key] = e, keeping the timestamp of an entry already there (a mutant)
DictPut_mix(d, key, e) ==
    [k \in DOMAIN d \cup {key} |->
        IF k = key
        THEN IF key \in DOMAIN d THEN CacheEntry(e.value, d[key].timestamp) ELSE e
        ELSE d[k]]

\* d[key] = e
DictPut(d, key, e) == [k \in DOMAIN d \cup {key} |-> IF k = key THEN e ELSE d[k]]

\* ttl = ttl if ttl is not None else self.default_ttl   (a mutant: "ttl or default_ttl")
EffectiveTTL_or(ttl, dttl) == IF ttl # NoTTL /\ ttl # 0 THEN ttl ELSE dttl

EffectiveTTL(ttl, dttl) == IF ttl # NoTTL THEN ttl ELSE dttl

\* if age > ttl
Expired(age, ttl) == age > ttl

\* Cache.get with the expired entry left in place (a mutant)
Cache_get_keep(c, key, ttl, dttl, t) ==
    IF key \notin DOMAIN c
    THEN [cache |-> c, hit |-> 0, miss |-> 1, value |-> PyNone]
    ELSE LET entry == c[key]
             age == t - entry.timestamp
         IN IF Expired(age, EffectiveTTL(ttl, dttl))
            THEN [cache |-> c, hit |-> 0, miss |-> 1, value |-> PyNone]
            ELSE [cache |-> c, hit |-> 1, miss |-> 0, value |-> entry.value]

\* Cache.get with the expired entry removed but counted nowhere (a mutant)
Cache_get_uncounted(c, key, ttl, dttl, t) ==
    IF key \notin DOMAIN c
    THEN [cache |-> c, hit |-> 0, miss |-> 1, value |-> PyNone]
    ELSE LET entry == c[key]
             age == t - entry.timestamp
         IN IF Expired(age, EffectiveTTL(ttl, dttl))
            THEN [cache |-> DictDel(c, key), hit |-> 0, miss |-> 0, value |-> PyNone]
            ELSE [cache |-> c, hit |-> 1, miss |-> 0, value |-> entry.value]

\* Cache.get with the timestamp of the entry renewed by a hit (a mutant)
Cache_get_renewing(c, key, ttl, dttl, t) ==
    IF key \notin DOMAIN c
    THEN [cache |-> c, hit |-> 0, miss |-> 1, value |-> PyNone]
    ELSE LET entry == c[key]
             age == t - entry.timestamp
         IN IF Expired(age, EffectiveTTL(ttl, dttl))
            THEN [cache |-> DictDel(c, key), hit |-> 0, miss |-> 1, value |-> PyNone]
            ELSE [cache |-> DictPut(c, key, CacheEntry(entry.value, t)),
                  hit |-> 1, miss |-> 0, value |-> entry.value]
\* Cache.get(key, ttl): the new dictionary, the counter increments and the
\* value returned
Cache_get(c, key, ttl, dttl, t) ==
    IF key \notin DOMAIN c
    THEN [cache |-> c, hit |-> 0, miss |-> 1, value |-> PyNone]
    ELSE LET entry == c[key]
             age == t - entry.timestamp
         IN IF Expired(age, EffectiveTTL(ttl, dttl))
            THEN [cache |-> DictDel(c, key), hit |-> 0, miss |-> 1, value |-> PyNone]
            ELSE [cache |-> c, hit |-> 1, miss |-> 0, value |-> entry.value]

\* Cache.set(key, value)
Cache_set(c, key, value, t) == DictPut(c, key, CacheEntry(value, t))

\* Cache.invalidate(key)
Cache_invalidate(c, key) == IF key \in DOMAIN c THEN DictDel(c, key) ELSE c

\* Cache.get_stats()['size']
StatsSize(c) == Cardinality(DOMAIN c)

\* the caller's record of a set: done is FALSE when there is none
SetRec(done, value, at) == [done |-> done, value |-> value, at |-> at]

NoSet == SetRec(FALSE, PyNone, 0)

\* what the caller saw: the call, its arguments, the dictionary before the
\* call, the caller's last set of the key, the clock at the call and the
\* value returned
CallRec(op, key, ttl, arg, before, log, at, result) ==
    [op |-> op, key |-> key, ttl |-> ttl, arg |-> arg, before |-> before,
     log |-> log, at |-> at, result |-> result]

NoCall == CallRec("none", "k1", NoTTL, PyNone, EmptyDict, NoSet, 0, PyNone)

\* ------------------------------------------------------------------------
\* utils/cache.py called from several threads (polling loop, event callback,
\* writer): one step per statement, the interpreter may switch threads
\* between any two of them
\* ------------------------------------------------------------------------
Threads == {1, 2}
ThreadKey == "k1"

NoEntry == CacheEntry(PyNone, 0)

\* the locals of a thread: the call (op, ttl, value), the entry it looked up
\* or built, the counter it loaded, the value returned, whether the call
\* raised KeyError, the number of calls made, and the previous call
ThreadLocals(op, ttl, value, entry, tmp, result, raised, n, prevop, prevres) ==
    [op |-> op, ttl |-> ttl, value |-> value, entry |-> entry, tmp |-> tmp,
     result |-> result, raised |-> raised, n |-> n, prevop |-> prevop,
     prevres |-> prevres]

IdleLocals == ThreadLocals("none", NoTTL, PyNone, NoEntry, 0, PyNone, FALSE, 0, "none", PyNone)

ThreadsParked ==
    /\ tpc = [t \in Threads |-> "idle"]
    /\ tloc = [t \in Threads |-> IdleLocals]
    /\ laststore = 0
    /\ thist = [gets |-> 0, clears |-> 0]

\* the thread enters a method: op is its first statement
Enter(t, op, first, value) ==
    /\ tloc[t].n < MaxThreadOps
    /\ tpc' = [tpc EXCEPT ![t] = first]
    /\ tloc' = [tloc EXCEPT ![t] =
                  ThreadLocals(op, NoTTL, value, NoEntry, 0, PyNone, FALSE,
                               tloc[t].n + 1, tloc[t].op, tloc[t].result)]
    /\ thist' = [thist EXCEPT !.clears = IF op = "clear" THEN @ + 1 ELSE @]
    /\ UNCHANGED <<cacheVars, seqVars, laststore>>
    /\ UNCHANGED notThreads

\* the method returns result
Return(t, result) ==
    /\ tpc' = [tpc EXCEPT ![t] = "idle"]
    /\ tloc' = [tloc EXCEPT ![t].result = result, ![t].tmp = 0]
    /\ thist' = [thist EXCEPT !.gets = IF tloc[t].op = "get" THEN @ + 1 ELSE @]

\* the statement raises KeyError, which leaves the method
Raise(t) ==
    /\ tpc' = [tpc EXCEPT ![t] = "raised"]
    /\ tloc' = [tloc EXCEPT ![t].raised = TRUE]
    /\ UNCHANGED thist

Goto(t, pc) == tpc' = [tpc EXCEPT ![t] = pc] /\ UNCHANGED thist

T_call_get(t) ==
    /\ tpc[t] = "idle"
    /\ Enter(t, "get", "get_contains", PyNone)

T_call_set(t) ==
    /\ tpc[t] = "idle"
    /\ Enter(t, "set", "set_build", PyInt(t))

T_call_invalidate(t) ==
    /\ tpc[t] = "idle"
    /\ Enter(t, "invalidate", "inv_contains", PyNone)

T_call_clear(t) ==
    /\ tpc[t] = "idle"
    /\ Enter(t, "clear", "clear_dict", PyNone)

\* if key not in self._cache:
T_get_contains(t) ==
    /\ tpc[t] = "get_contains"
    /\ IF ThreadKey \notin DOMAIN cache
       THEN Goto(t, "miss_load")
       ELSE Goto(t, "get_lookup")
    /\ UNCHANGED <<cacheVars, seqVars, tloc, laststore>>
    /\ UNCHANGED notThreads

\* entry = self._cache[key]
T_get_lookup(t) ==
    /\ tpc[t] = "get_lookup"
    /\ IF ThreadKey \in DOMAIN cache
       THEN /\ Goto(t, "get_age")
            /\ tloc' = [tloc EXCEPT ![t].entry = cache[ThreadKey]]
       ELSE Raise(t)
    /\ UNCHANGED <<cacheVars, seqVars, laststore>>
    /\ UNCHANGED notThreads

\* age = time.time() - entry.timestamp; ttl = ...; if age > ttl:
T_get_age(t) ==
    /\ tpc[t] = "get_age"
    /\ IF Expired(now - tloc[t].entry.timestamp, EffectiveTTL(tloc[t].ttl, default_ttl))
       THEN Goto(t, "get_del")
       ELSE Goto(t, "hit_load")
    /\ UNCHANGED <<cacheVars, seqVars, tloc, laststore>>
    /\ UNCHANGED notThreads

\* del self._cache[key]
T_get_del(t) ==
    /\ tpc[t] = "get_del"
    /\ IF ThreadKey \in DOMAIN cache
       THEN /\ cache' = DictDel(cache, ThreadKey)
            /\ Goto(t, "miss_load")
            /\ UNCHANGED tloc
       ELSE /\ Raise(t)
            /\ UNCHANGED cache
    /\ UNCHANGED <<hits, misses, default_ttl, now, seqVars, laststore>>
    /\ UNCHANGED notThreads

\* self._misses += 1: the load
T_miss_load(t) ==
    /\ tpc[t] = "miss_load"
    /\ Goto(t, "miss_store")
    /\ tloc' = [tloc EXCEPT ![t].tmp = misses]
    /\ UNCHANGED <<cacheVars, seqVars, laststore>>
    /\ UNCHANGED notThreads

\* self._misses += 1: the store; return None
T_miss_store(t) ==
    /\ tpc[t] = "miss_store"
    /\ misses' = tloc[t].tmp + 1
    /\ Return(t, PyNone)
    /\ UNCHANGED <<cache, hits, default_ttl, now, seqVars, laststore>>
    /\ UNCHANGED notThreads

\* self._hits += 1: the load
T_hit_load(t) ==
    /\ tpc[t] = "hit_load"
    /\ Goto(t, "hit_store")
    /\ tloc' = [tloc EXCEPT ![t].tmp = hits]
    /\ UNCHANGED <<cacheVars, seqVars, laststore>>
    /\ UNCHANGED notThreads

\* self._hits += 1: the store; return entry.value
T_hit_store(t) ==
    /\ tpc[t] = "hit_store"
    /\ hits' = tloc[t].tmp + 1
    /\ Return(t, tloc[t].entry.value)
    /\ UNCHANGED <<cache, misses, default_ttl, now, seqVars, laststore>>
    /\ UNCHANGED notThreads

\* CacheEntry(value=value, timestamp=time.time())
T_set_build(t) ==
    /\ tpc[t] = "set_build"
    /\ Goto(t, "set_store")
    /\ tloc' = [tloc EXCEPT ![t].entry = CacheEntry(tloc[t].value, now)]
    /\ UNCHANGED <<cacheVars, seqVars, laststore>>
    /\ UNCHANGED notThreads

\* self._cache[key] = <the entry built>
T_set_store(t) ==
    /\ tpc[t] = "set_store"
    /\ cache' = DictPut(cache, ThreadKey, tloc[t].entry)
    /\ laststore' = t
    /\ Return(t, PyNone)
    /\ UNCHANGED <<hits, misses, default_ttl, now, seqVars>>
    /\ UNCHANGED notThreads

\* if key in self._cache:
T_inv_contains(t) ==
    /\ tpc[t] = "inv_contains"
    /\ IF ThreadKey \in DOMAIN cache
       THEN /\ Goto(t, "inv_del")
            /\ UNCHANGED tloc
       ELSE Return(t, PyNone)
    /\ UNCHANGED <<cacheVars, seqVars, laststore>>
    /\ UNCHANGED notThreads

\* del self._cache[key]
T_inv_del(t) ==
    /\ tpc[t] = "inv_del"
    /\ IF ThreadKey \in DOMAIN cache
       THEN /\ cache' = DictDel(cache, ThreadKey)
            /\ Return(t, PyNone)
       ELSE /\ Raise(t)
            /\ UNCHANGED cache
    /\ UNCHANGED <<hits, misses, default_ttl, now, seqVars, laststore>>
    /\ UNCHANGED notThreads

\* self._cache.clear()
T_clear_dict(t) ==
    /\ tpc[t] = "clear_dict"
    /\ cache' = EmptyDict
    /\ Goto(t, "clear_hits")
    /\ UNCHANGED <<hits, misses, default_ttl, now, seqVars, tloc, laststore>>
    /\ UNCHANGED notThreads

\* self._hits = 0
T_clear_hits(t) ==
    /\ tpc[t] = "clear_hits"
    /\ hits' = 0
    /\ Goto(t, "clear_misses")
    /\ UNCHANGED <<cache, misses, default_ttl, now, seqVars, tloc, laststore>>
    /\ UNCHANGED notThreads

\* self._misses = 0
T_clear_misses(t) ==
    /\ tpc[t] = "clear_misses"
    /\ misses' = 0
    /\ Return(t, PyNone)
    /\ UNCHANGED <<cache, hits, default_ttl, now, seqVars, laststore>>
    /\ UNCHANGED notThreads

\* time passes while the threads run
T_tick ==
    /\ now < MaxThreadTime
    /\ now' = now + 1
    /\ UNCHANGED <<cache, hits, misses, default_ttl, seqVars, thrVars>>
    /\ UNCHANGED notThreads

ThreadStep(t) ==
    \/ T_call_get(t) \/ T_call_set(t) \/ T_call_invalidate(t) \/ T_call_clear(t)
    \/ T_get_contains(t) \/ T_get_lookup(t) \/ T_get_age(t) \/ T_get_del(t)
    \/ T_miss_load(t) \/ T_miss_store(t) \/ T_hit_load(t) \/ T_hit_store(t)
    \/ T_set_build(t) \/ T_set_store(t)
    \/ T_inv_contains(t) \/ T_inv_del(t)
    \/ T_clear_dict(t) \/ T_clear_hits(t) \/ T_clear_misses(t)

ThreadsNext == T_tick \/ \E t \in Threads : ThreadStep(t)

\* Cache.__init__(default_ttl)
CacheInit ==
    /\ cache = EmptyDict
    /\ hits = 0
    /\ misses = 0
    /\ default_ttl \in TTLs
    /\ now = 0
    /\ call = NoCall
    /\ setlog = [k \in CacheKeys |-> NoSet]
    /\ gets = 0

\* cache.get(key, ttl)
Get ==
    /\ gets < MaxGets
    /\ \E key \in CacheKeys, ttl \in TTLs \cup {NoTTL} :
         LET r == Cache_get(cache, key, ttl, default_ttl, now)
         IN /\ cache' = r.cache
            /\ hits' = hits + r.hit
            /\ misses' = misses + r.miss
            /\ call' = CallRec("get", key, ttl, PyNone, cache, setlog[key], now, r.value)
            /\ setlog' = IF r.value = PyNone THEN [setlog EXCEPT ![key] = NoSet] ELSE setlog
            /\ gets' = gets + 1
    /\ UNCHANGED <<default_ttl, now>>
    /\ UNCHANGED notCache

\* cache.set(key, value)
Set ==
    /\ \E key \in CacheKeys, value \in CacheValues :
         /\ cache' = Cache_set(cache, key, value, now)
         /\ call' = CallRec("set", key, NoTTL, value, cache, setlog[key], now, PyNone)
         /\ setlog' = [setlog EXCEPT ![key] = SetRec(TRUE, value, now)]
    /\ UNCHANGED <<hits, misses, default_ttl, now, gets>>
    /\ UNCHANGED notCache

\* cache.invalidate(key)
Invalidate ==
    /\ \E key \in CacheKeys :
         /\ cache' = Cache_invalidate(cache, key)
         /\ call' = CallRec("invalidate", key, NoTTL, PyNone, cache, setlog[key], now, PyNone)
         /\ setlog' = [setlog EXCEPT ![key] = NoSet]
    /\ UNCHANGED <<hits, misses, default_ttl, now, gets>>
    /\ UNCHANGED notCache

\* cache.clear()
Clear ==
    /\ cache' = EmptyDict
    /\ hits' = 0
    /\ misses' = 0
    /\ call' = CallRec("clear", "k1", NoTTL, PyNone, cache, NoSet, now, PyNone)
    /\ setlog' = [k \in CacheKeys |-> NoSet]
    /\ gets' = 0
    /\ UNCHANGED <<default_ttl, now>>
    /\ UNCHANGED notCache

\* time passes
Tick ==
    /\ now < MaxTime
    /\ now' = now + 1
    /\ UNCHANGED <<cache, hits, misses, default_ttl, seqVars>>
    /\ UNCHANGED notCache

\* ------------------------------------------------------------------------
\* Bytes and numbers. A 32-bit word is held as the signed integer with the
\* same bits, so that a float is identified by its bit pattern and the
\* flag tests of a word are tests on its two's-complement bits.
\* ------------------------------------------------------------------------
PyFloat(bits) == [t |-> "float", v |-> <<bits>>]
PyBytes(b) == [t |-> "bytes", v |-> b]
PyStr(units) == [t |-> "str", v |-> units]
PyTuple(xs) == [t |-> "tuple", v |-> xs]
PyDict(xs) == [t |-> "dict", v |-> xs]

\* b'\x00' * n
Zeros(n) == [i \in 1 .. n |-> 0]

\* data[a:b] of Python, 0-based, b excluded
Slice(data, a, b) == SubSeq(data, a + 1, b)

\* the unsigned little-endian value of the bytes from position i on
RECURSIVE LEFrom(_, _)
LEFrom(b, i) == IF i > Len(b) THEN 0 ELSE b[i] + 256 * LEFrom(b, i + 1)

\* struct.unpack('<Q') and '<B', and '<I' of a word below 2^31
Unsigned(b) == LEFrom(b, 1)

\* the top bit read as a sign over a magnitude (a mutant)
Signed32_magnitude(b) ==
    IF b[4] >= 128
    THEN 0 - (b[1] + 256 * b[2] + 65536 * b[3] + 16777216 * (b[4] - 128))
    ELSE b[1] + 256 * b[2] + 65536 * b[3] + 16777216 * b[4]

\* struct.unpack('<i'): two's complement of four little-endian bytes
Signed32(b) ==
    b[1] + 256 * b[2] + 65536 * b[3]
      + 16777216 * (IF b[4] >= 128 THEN b[4] - 256 ELSE b[4])

\* struct.pack('<i') and '<I': the four little-endian bytes of a word
PackWord(w) ==
    <<w % 256, (w \div 256) % 256, (w \div 65536) % 256, (w \div 16777216) % 256>>

\* -x of a float: the sign bit flipped
NegFloat(bits) ==
    IF bits >= 0 THEN (bits - 1073741824) - 1073741824
    ELSE (bits + 1073741824) + 1073741824

\* bytes.decode('utf-16le', errors='ignore') of units outside the surrogates:
\* one code unit per pair of bytes, a trailing odd byte dropped
Utf16le(b) == [i \in 1 .. (Len(b) \div 2) |-> b[2 * i - 1] + 256 * b[2 * i]]

\* f"{address:X}": upper-case hexadecimal digits, "-" first when negative
HexChar == <<"0", "1", "2", "3", "4", "5", "6", "7", "8", "9", "A", "B", "C", "D", "E", "F">>

RECURSIVE HexDigits(_)
HexDigits(n) ==
    IF n < 16 THEN <<HexChar[n + 1]>>
    ELSE HexDigits(n \div 16) \o <<HexChar[(n % 16) + 1]>>

Hex(n) == IF n < 0 THEN <<"-">> \o HexDigits(0 - n) ELSE HexDigits(n)

\* f"{prefix}_{address:X}"
Key(prefix, address) == <<prefix, "_">> \o Hex(address)

\* ------------------------------------------------------------------------
\* The target process as pymem sees it: every read either raises or returns
\* the bytes found; resp = [ok, pat] is the answer of the process to one read,
\* pat naming the contents found at the address
\* ------------------------------------------------------------------------
PatternByte(pat, i) ==
    CASE pat = "zero" -> 0
      [] pat = "ff" -> 255
      [] pat = "five" -> IF i = 1 THEN 5 ELSE 0
      [] pat = "three" -> IF i = 1 THEN 3 ELSE 0
      [] pat = "unit" -> IF i = 1 THEN 1 ELSE 0
      [] pat = "one" -> <<0, 0, 128, 63>>[((i - 1) % 4) + 1]
      [] pat = "minus1" -> <<0, 0, 128, 191>>[((i - 1) % 4) + 1]
      [] pat = "text" -> IF i % 2 = 1 THEN 104 ELSE 0
      [] pat = "asc" -> i
      [] pat = "at0" -> region.data[i]
      [] pat = "at4" -> region.data[4 + i]
      [] pat = "at8" -> region.data[8 + i]

ProcessBytes(pat, size) == [i \in 1 .. size |-> PatternByte(pat, i)]

Resp(ok, pat) == [ok |-> ok, pat |-> pat]

Responses(pats) == {Resp(FALSE, "zero")} \cup {Resp(TRUE, p) : p \in pats}

\* the record of one read issued to the process
ReadRec(fn, address, size, ok) == [fn |-> fn, address |-> address, size |-> size, ok |-> ok]

\* pymem: self.pm.read_int / read_uint / read_ulonglong / read_float /
\* read_uchar / read_bytes (address[, size]); raises when the read fails
PmSize(fn, size) ==
    CASE fn = "read_int" -> 4
      [] fn = "read_uint" -> 4
      [] fn = "read_ulonglong" -> 8
      [] fn = "read_float" -> 4
      [] fn = "read_uchar" -> 1
      [] fn = "read_bytes" -> size

PmDecode(fn, data) ==
    CASE fn = "read_int" -> PyInt(Signed32(data))
      [] fn = "read_uint" -> PyInt(Unsigned(data))
      [] fn = "read_ulonglong" -> PyInt(Unsigned(data))
      [] fn = "read_float" -> PyFloat(Signed32(data))
      [] fn = "read_uchar" -> PyInt(Unsigned(data))
      [] fn = "read_bytes" -> PyBytes(data)

PmRead(fn, address, size, resp) ==
    [raised |-> ~resp.ok,
     value |-> IF resp.ok THEN PmDecode(fn, ProcessBytes(resp.pat, PmSize(fn, size))) ELSE PyNone,
     read |-> ReadRec(fn, address, PmSize(fn, size), resp.ok)]

\* ------------------------------------------------------------------------
\* utils/performance.py as MemoryManager uses it: the number of timings
\* recorded per operation name
\* ------------------------------------------------------------------------
PerfNames == {"read_int", "read_uint", "read_ptr", "read_float", "read_byte",
              "read_bytes", "read_string", "read_vector3", "read_rotator",
              "read_inputs", "write_bytes", "write_inputs"}

\* PerformanceMonitor.record(name, elapsed)
PerfRecord(p, name) == [p EXCEPT ![name] = @ + 1]

\* ------------------------------------------------------------------------
\* core/memory_manager.py
\* ------------------------------------------------------------------------
\* self._cache = Cache(default_ttl=0.05): one tick of the clock
MMDefaultTTL == 1

\* the state of a MemoryManager: its cache with the counters, its monitor
MMState(c, h, ms, p) == [cache |-> c, hits |-> h, misses |-> ms, perf |-> p]

\* the outcome of a method: the state it leaves, the value returned, whether
\* an exception left the method, the reads it issued to the process
Out(m, value, raised, reads) == [m |-> m, value |-> value, raised |-> raised, reads |-> reads]

\* with self._perf_monitor.time_operation(name): ... (the finally records)
WithTiming(out, name) == [out EXCEPT !.m.perf = PerfRecord(@, name)]

\* try: ... except Exception: return sentinel
TryExcept(out, sentinel) ==
    IF out.raised THEN [out EXCEPT !.value = sentinel, !.raised = FALSE] ELSE out

\* cached = self._cache.get(key), made only when use_cache
CacheLookup(m, key, use_cache, t) ==
    LET g == Cache_get(m.cache, key, NoTTL, MMDefaultTTL, t)
    IN IF use_cache
       THEN [m |-> [m EXCEPT !.cache = g.cache, !.hits = @ + g.hit, !.misses = @ + g.miss],
             value |-> g.value]
       ELSE [m |-> m, value |-> PyNone]

\* the value stored whatever use_cache (a mutant)
CacheStore_always(m, key, use_cache, value, t) ==
    [m EXCEPT !.cache = Cache_set(@, key, value, t)]

\* if use_cache: self._cache.set(key, value)
CacheStore(m, key, use_cache, value, t) ==
    IF use_cache THEN [m EXCEPT !.cache = Cache_set(@, key, value, t)] ELSE m

\* read_int, read_uint, read_longlong, read_float, read_uchar: the key
\* prefix, the pymem function, the name timed and the value on failure
Primitive(typ) ==
    CASE typ = "read_int" ->
           [prefix |-> "int", fn |-> "read_int", perf |-> "read_int", zero |-> PyInt(0)]
      [] typ = "read_uint" ->
           [prefix |-> "uint", fn |-> "read_uint", perf |-> "read_uint", zero |-> PyInt(0)]
      [] typ = "read_longlong" ->
           [prefix |-> "ptr", fn |-> "read_ulonglong", perf |-> "read_ptr", zero |-> PyInt(0)]
      [] typ = "read_float" ->
           [prefix |-> "float", fn |-> "read_float", perf |-> "read_float", zero |-> PyFloat(0)]
      [] typ = "read_uchar" ->
           [prefix |-> "byte", fn |-> "read_uchar", perf |-> "read_byte", zero |-> PyInt(0)]

Primitives == {"read_int", "read_uint", "read_longlong", "read_float", "read_uchar"}

\* MemoryManager.read_int(address, use_cache) and its four siblings
ReadPrimitive(m, typ, address, use_cache, resp, t) ==
    LET info == Primitive(typ)
        key == Key(info.prefix, address)
        look == CacheLookup(m, key, use_cache, t)
        r == PmRead(info.fn, address, 0, resp)
        stored == IF r.raised THEN look.m ELSE CacheStore(look.m, key, use_cache, r.value, t)
    IN IF use_cache /\ look.value # PyNone
       THEN Out(look.m, look.value, FALSE, <<>>)
       ELSE WithTiming(TryExcept(Out(stored, r.value, r.raised, <<r.read>>), info.zero),
                       info.perf)

\* MemoryManager.read_bytes(address, size)
ReadBytes(m, address, size, resp) ==
    LET r == PmRead("read_bytes", address, size, resp)
    IN WithTiming(TryExcept(Out(m, r.value, r.raised, <<r.read>>), PyBytes(Zeros(size))),
                  "read_bytes")

\* struct.unpack('<fff', data) and ('<iii', data): struct.error unless 12 bytes
Unpack3(data) ==
    IF Len(data) # 12
    THEN [raised |-> TRUE, value |-> <<>>]
    ELSE [raised |-> FALSE,
          value |-> <<Signed32(Slice(data, 0, 4)), Signed32(Slice(data, 4, 8)),
                      Signed32(Slice(data, 8, 12))>>]

\* the rotator cached under the prefix of the vector (a mutant)
Composite_same(typ) ==
    CASE typ = "read_vector3" -> [prefix |-> "vec3", perf |-> "read_vector3"]
      [] typ = "read_rotator" -> [prefix |-> "vec3", perf |-> "read_rotator"]

\* read_vector3 and read_rotator: the key prefix and the name timed. The
\* components of a vector are floats given by their bits; those of a rotator
\* are the integers read, each standing for itself times to_rad.
Composite(typ) ==
    CASE typ = "read_vector3" -> [prefix |-> "vec3", perf |-> "read_vector3"]
      [] typ = "read_rotator" -> [prefix |-> "rot", perf |-> "read_rotator"]

Composites == {"read_vector3", "read_rotator"}

ZeroVector == PyTuple(<<0, 0, 0>>)

\* MemoryManager.read_vector3(address, use_cache) and read_rotator
ReadComposite(m, typ, address, use_cache, resp, t) ==
    LET info == Composite(typ)
        key == Key(info.prefix, address)
        look == CacheLookup(m, key, use_cache, t)
        rb == ReadBytes(look.m, address, 12, resp)
        u == Unpack3(rb.value.v)
        result == PyTuple(u.value)
        stored == IF u.raised THEN rb.m ELSE CacheStore(rb.m, key, use_cache, result, t)
    IN IF use_cache /\ look.value # PyNone
       THEN Out(look.m, look.value, FALSE, <<>>)
       ELSE WithTiming(TryExcept(Out(stored, result, u.raised, rb.reads), ZeroVector),
                       info.perf)

\* the dictionary of read_vehicle_inputs, in the order throttle, steer,
\* pitch, yaw, roll, dodge_forward, dodge_right, handbrake, jump, boost
InputsDict(f, handbrake, jump, boost) ==
    PyDict(<<f[1], f[2], f[3], f[4], f[5], f[6], f[7], handbrake, jump, boost>>)

ZeroInputs == InputsDict(<<0, 0, 0, 0, 0, 0, 0>>, 0, 0, 0)

\* struct.unpack('<7f', data[:28]) and struct.unpack('<I', data[28:32])
UnpackInputs(data) ==
    IF Len(data) # 32
    THEN [raised |-> TRUE, value |-> ZeroInputs]
    ELSE LET f == [i \in 1 .. 7 |-> Signed32(Slice(data, 4 * (i - 1), 4 * i))]
             flags == Signed32(Slice(data, 28, 32))
         IN [raised |-> FALSE,
             value |-> InputsDict(f, flags % 2, (flags \div 2) % 2, (flags \div 4) % 2)]

\* one read of four bytes per field (a mutant)
ReadVehicleInputs_fields(m, address, resp) ==
    LET rb == ReadBytes(m, address, 32, resp)
        u == UnpackInputs(rb.value.v)
        field(k) == ReadRec("read_bytes", address + 4 * (k - 1), 4, resp.ok)
    IN WithTiming(TryExcept(Out(rb.m, u.value, u.raised, [k \in 1 .. 8 |-> field(k)]),
                            ZeroInputs),
                  "read_inputs")

\* MemoryManager.read_vehicle_inputs(address)
ReadVehicleInputs(m, address, resp) ==
    LET rb == ReadBytes(m, address, 32, resp)
        u == UnpackInputs(rb.value.v)
    IN WithTiming(TryExcept(Out(rb.m, u.value, u.raised, rb.reads), ZeroInputs),
                  "read_inputs")

EmptyStr == PyStr(<<>>)

Min(a, b) == IF a < b THEN a ELSE b

\* a count of 1 let through (a mutant)
ReadString_lt(m, address, max_length, rp, rc, rd, t) ==
    LET o1 == ReadPrimitive(m, "read_longlong", address, FALSE, rp, t)
        array_data_address == o1.value.v[1]
        o2 == ReadPrimitive(o1.m, "read_int", address + 8, FALSE, rc, t)
        array_count == o2.value.v[1]
        bytes_to_read == Min((array_count - 1) * 2, max_length * 2)
        o3 == ReadBytes(o2.m, array_data_address, bytes_to_read, rd)
    IN WithTiming(
         IF array_data_address = 0
         THEN Out(o1.m, EmptyStr, FALSE, o1.reads)
         ELSE IF array_count < 1 \/ array_count > max_length
              THEN Out(o2.m, EmptyStr, FALSE, o1.reads \o o2.reads)
              ELSE Out(o3.m, PyStr(Utf16le(o3.value.v)), FALSE,
                       o1.reads \o o2.reads \o o3.reads),
         "read_string")

\* MemoryManager.read_string(address, max_length): rp, rc and rd are the
\* answers of the process to the reads of the pointer, the count and the
\* characters
ReadString(m, address, max_length, rp, rc, rd, t) ==
    LET o1 == ReadPrimitive(m, "read_longlong", address, FALSE, rp, t)
        array_data_address == o1.value.v[1]
        o2 == ReadPrimitive(o1.m, "read_int", address + 8, FALSE, rc, t)
        array_count == o2.value.v[1]
        bytes_to_read == Min((array_count - 1) * 2, max_length * 2)
        o3 == ReadBytes(o2.m, array_data_address, bytes_to_read, rd)
    IN WithTiming(
         IF array_data_address = 0
         THEN Out(o1.m, EmptyStr, FALSE, o1.reads)
         ELSE IF array_count <= 1 \/ array_count > max_length
              THEN Out(o2.m, EmptyStr, FALSE, o1.reads \o o2.reads)
              ELSE Out(o3.m, PyStr(Utf16le(o3.value.v)), FALSE,
                       o1.reads \o o2.reads \o o3.reads),
         "read_string")

\* the inputs dictionary written: throttle, steer, pitch, yaw, roll (floats
\* given by their bits), handbrake, jump, boost (0 or 1), in this order
ControllerDict(throttle, steer, pitch, yaw, roll, handbrake, jump, boost) ==
    PyDict(<<throttle, steer, pitch, yaw, roll, handbrake, jump, boost>>)

\* the 32 bytes write_vehicle_inputs packs: seven '<f' (dodge_forward is
\* -pitch, dodge_right is yaw) and the '<I' flags with boost on bits 2 and 3
PackVehicleInputs(inputs) ==
    LET i == inputs.v
        flags == (IF i[6] # 0 THEN 1 ELSE 0) + 2 * (IF i[7] # 0 THEN 1 ELSE 0)
                   + 4 * (IF i[8] # 0 THEN 1 ELSE 0) + 8 * (IF i[8] # 0 THEN 1 ELSE 0)
    IN PackWord(i[1]) \o PackWord(i[2]) \o PackWord(i[3]) \o PackWord(i[4])
         \o PackWord(i[5]) \o PackWord(NegFloat(i[3])) \o PackWord(i[4])
         \o PackWord(flags)

\* pymem: self.pm.write_bytes(address, data, len(data)): landed is whether
\* the process took the write; it raises otherwise and on address None (0)
PmWrite(address, data, landed) ==
    [raised |-> ~(landed /\ address # 0),
     write |-> ReadRec("write_bytes", address, Len(data), landed /\ address # 0)]

\* a second attempt after a failed write (a mutant)
WriteBytes_retry(m, address, data, landed) ==
    LET w == PmWrite(address, data, landed)
    IN WithTiming(TryExcept(Out(m, PyBool(TRUE), w.raised,
                                IF w.raised THEN <<w.write, w.write>> ELSE <<w.write>>),
                            PyBool(FALSE)),
                  "write_bytes")

\* write_bytes that forgets every cached value when the write landed (a
\* mutant)
WriteBytes_forgetful(m, address, data, landed) ==
    LET w == PmWrite(address, data, landed)
        after == IF w.raised THEN m ELSE [m EXCEPT !.cache = EmptyDict]
    IN WithTiming(TryExcept(Out(after, PyBool(TRUE), w.raised, <<w.write>>), PyBool(FALSE)),
                  "write_bytes")
\* MemoryManager.write_bytes(address, data): the writes issued to the
\* process are in the reads field of the outcome
WriteBytes(m, address, data, landed) ==
    LET w == PmWrite(address, data, landed)
    IN WithTiming(TryExcept(Out(m, PyBool(TRUE), w.raised, <<w.write>>), PyBool(FALSE)),
                  "write_bytes")

\* MemoryManager.write_vehicle_inputs(address, inputs)
WriteVehicleInputs(m, address, inputs, landed) ==
    WithTiming(TryExcept(WriteBytes(m, address, PackVehicleInputs(inputs), landed),
                         PyBool(FALSE)),
               "write_inputs")

\* the value a read returns when it fails
Sentinel(op, size) ==
    CASE op \in Primitives -> Primitive(op).zero
      [] op \in Composites -> ZeroVector
      [] op = "read_bytes" -> PyBytes(Zeros(size))
      [] op = "read_string" -> EmptyStr
      [] op = "read_vehicle_inputs" -> ZeroInputs

\* ------------------------------------------------------------------------
\* The callers of one MemoryManager, one call at a time
\* ------------------------------------------------------------------------
MemAddrs == {16, 44}
ByteSizes == {0, 4}
MaxLengths == {4}

\* what the process may hold where each read looks
PatternsOf(op) ==
    CASE op = "read_int" -> {"five", "ff"}
      [] op = "read_uint" -> {"three"}
      [] op = "read_longlong" -> {"five"}
      [] op = "read_float" -> {"minus1"}
      [] op = "read_uchar" -> {"ff"}
      [] op = "read_bytes" -> {"asc"}
      [] op = "read_vector3" -> {"minus1"}
      [] op = "read_rotator" -> {"ff"}
      [] op = "read_vehicle_inputs" -> {"asc"}
      [] op = "string_pointer" -> {"five", "zero"}
      [] op = "string_count" -> {"zero", "three", "five"}
      [] op = "string_chars" -> {"text"}

MCallRec(op, address, size, use_cache, out) ==
    [op |-> op, address |-> address, size |-> size, use_cache |-> use_cache,
     value |-> out.value, raised |-> out.raised, reads |-> out.reads]

NoMCall == MCallRec("none", 0, 0, FALSE, Out(MMState(EmptyDict, 0, 0, <<>>), PyNone, FALSE, <<>>))

MemParked ==
    /\ mcall = NoMCall
    /\ perf = [n \in PerfNames |-> 0]
    /\ ncalls = 0

\* MemoryManager.__init__ after _connect succeeded
MemInit ==
    /\ cache = EmptyDict
    /\ hits = 0
    /\ misses = 0
    /\ default_ttl = MMDefaultTTL
    /\ now = 0
    /\ call = NoCall
    /\ setlog = [k \in CacheKeys |-> NoSet]
    /\ gets = 0
    /\ MemParked

MMNow == MMState(cache, hits, misses, perf)

\* the call returns: the state it left and the caller's record of it
MReturn(op, address, size, use_cache, out) ==
    /\ ncalls' = ncalls + 1
    /\ cache' = out.m.cache
    /\ hits' = out.m.hits
    /\ misses' = out.m.misses
    /\ perf' = out.m.perf
    /\ mcall' = MCallRec(op, address, size, use_cache, out)
    /\ UNCHANGED <<default_ttl, now, seqVars>>
    /\ UNCHANGED notMemory

M_primitive(op) ==
    \E address \in MemAddrs, use_cache \in BOOLEAN, resp \in Responses(PatternsOf(op)) :
        MReturn(op, address, 0, use_cache,
                ReadPrimitive(MMNow, op, address, use_cache, resp, now))

M_read_int ==
    /\ ncalls < MaxCalls
    /\ M_primitive("read_int")

M_read_uint ==
    /\ ncalls < MaxCalls
    /\ M_primitive("read_uint")

M_read_longlong ==
    /\ ncalls < MaxCalls
    /\ M_primitive("read_longlong")

M_read_float ==
    /\ ncalls < MaxCalls
    /\ M_primitive("read_float")

M_read_uchar ==
    /\ ncalls < MaxCalls
    /\ M_primitive("read_uchar")

M_read_bytes ==
    /\ ncalls < MaxCalls
    /\ \E address \in MemAddrs, size \in ByteSizes, resp \in Responses(PatternsOf("read_bytes")) :
        MReturn("read_bytes", address, size, FALSE, ReadBytes(MMNow, address, size, resp))

M_composite(op) ==
    \E address \in MemAddrs, use_cache \in BOOLEAN, resp \in Responses(PatternsOf(op)) :
        MReturn(op, address, 0, use_cache,
                ReadComposite(MMNow, op, address, use_cache, resp, now))

M_read_vector3 ==
    /\ ncalls < MaxCalls
    /\ M_composite("read_vector3")

M_read_rotator ==
    /\ ncalls < MaxCalls
    /\ M_composite("read_rotator")

M_read_vehicle_inputs ==
    /\ ncalls < MaxCalls
    /\ \E address \in MemAddrs, resp \in Responses(PatternsOf("read_vehicle_inputs")) :
        MReturn("read_vehicle_inputs", address, 0, FALSE,
                ReadVehicleInputs(MMNow, address, resp))

M_read_string ==
    /\ ncalls < MaxCalls
    /\ \E address \in MemAddrs, max_length \in MaxLengths,
          rp \in Responses(PatternsOf("string_pointer")),
          rc \in Responses(PatternsOf("string_count")),
          rd \in Responses(PatternsOf("string_chars")) :
        MReturn("read_string", address, max_length, FALSE,
                ReadString(MMNow, address, max_length, rp, rc, rd, now))

\* time passes between two calls
M_tick ==
    /\ now < MaxTime
    /\ now' = now + 1
    /\ UNCHANGED <<cache, hits, misses, default_ttl, seqVars, memVars>>
    /\ UNCHANGED notMemory

MemNext ==
    \/ M_read_int \/ M_read_uint \/ M_read_longlong \/ M_read_float \/ M_read_uchar
    \/ M_read_bytes \/ M_read_string
    \/ M_read_vector3 \/ M_read_rotator \/ M_read_vehicle_inputs
    \/ M_tick

\* ------------------------------------------------------------------------
\* main.py: the continuous input writer of HazeBot. The Frida message thread
\* runs on_tick -> _write_inputs and the game-ended handling; the keyboard
\* thread runs toggle_bot -> disable_bot -> stop_writing and may call the
\* public start_writing; each Thread object runs _continuous_write_loop.
\* One step per statement; the interpreter may switch threads between any
\* two of them.
\* ------------------------------------------------------------------------
Callers == {"frida", "keyboard"}

OpsOf(c) ==
    IF c = "frida" THEN {"_write_inputs", "stop_writing", "_reset_game_state"}
    ELSE {"stop_writing", "start_writing"}

\* the Thread objects start_writing can construct: one per call at most
Loops == 1 .. MaxWriterCalls

\* the floats 1.0 and -1.0 by their bits
FloatOne == 1065353216
FloatMinusOne == -1082130432

\* what bot.get_output hands to _write_inputs
Controllers ==
    {ControllerDict(FloatOne, 0, FloatMinusOne, 0, 0, 0, 1, 1),
     ControllerDict(FloatMinusOne, FloatOne, FloatOne, FloatMinusOne, 0, 1, 0, 0)}

\* reset_inputs of stop_writing
ResetInputs == ControllerDict(0, 0, 0, 0, 0, 0, 0, 0)

\* self.sdk._game_event_address (0: None) and what the process may hold
\* where _write_inputs looks for the player controller
GameEventAddrs == {0, 4096}

\* game_event_addr + 0x360 and player_controller_addr + 0x9A8
LocalPlayersOffset == 864
InputOffset == 2472
PointerPatterns == {"five", "zero"}

\* the loop packing pitch, not -pitch, as dodge_forward (a mutant)
LoopPack_pitch(inp) ==
    LET i == inp.v
        flags == i[6] + 2 * i[7] + 4 * i[8] + 8 * i[8]
    IN PackWord(i[1]) \o PackWord(i[2]) \o PackWord(i[3]) \o PackWord(i[4])
         \o PackWord(i[5]) \o PackWord(i[3]) \o PackWord(i[4])
         \o PackWord(flags)
\* flags and struct.pack('<7fI', ...) of _continuous_write_loop
LoopPack(inp) ==
    LET i == inp.v
        flags == i[6] + 2 * i[7] + 4 * i[8] + 8 * i[8]
    IN PackWord(i[1]) \o PackWord(i[2]) \o PackWord(i[3]) \o PackWord(i[4])
         \o PackWord(i[5]) \o PackWord(NegFloat(i[3])) \o PackWord(i[4])
         \o PackWord(flags)

\* a write that landed at the input address: the bytes and who wrote them
Landed(data, by) == [data |-> data, by |-> by]

\* the locals of a calling thread: the method called, the number of calls
\* made, the controller passed, how the last call ended, and what the caller
\* of stop_writing observed: reset is whether its reset write landed,
\* restarted whether write_running was set again after its check; found is
\* what the check of start_writing read
CallerLocals(op, n, ctrl, ret, reset, restarted, found) ==
    [op |-> op, n |-> n, ctrl |-> ctrl, ret |-> ret, reset |-> reset,
     restarted |-> restarted, found |-> found]

\* HazeBot.__init__: no input address, no inputs, no thread, not writing
BotInit ==
    /\ write_running = FALSE
    /\ write_thread = 0
    /\ input_address = 0
    /\ current_inputs = PyNone
    /\ cpc = [c \in Callers |-> "idle"]
    /\ cloc = [c \in Callers |-> CallerLocals("none", 0, PyNone, "none", FALSE, FALSE, FALSE)]
    /\ lpc = [l \in Loops |-> "none"]
    /\ ldata = [l \in Loops |-> <<>>]
    /\ target = Landed(Zeros(32), "none")
    /\ created = 0

\* Thread.is_alive()
Alive(l) == lpc[l] \in {"while", "if", "pack", "write"}

CGoto(c, pc) == cpc' = [cpc EXCEPT ![c] = pc]

\* the method called from the thread returns
CReturn(c, ret) ==
    /\ cpc' = [cpc EXCEPT ![c] = "idle"]
    /\ cloc' = [cloc EXCEPT ![c].op = "none", ![c].ret = ret]

\* the calls made so far by the threads together
WriterCalls == cloc["frida"].n + cloc["keyboard"].n

\* the thread calls a method of HazeBot
CCall(c, op, ctrl, first) ==
    /\ cpc[c] = "idle"
    /\ op \in OpsOf(c)
    /\ WriterCalls < MaxWriterCalls
    /\ cpc' = [cpc EXCEPT ![c] = first]
    /\ cloc' = [cloc EXCEPT ![c].op = op, ![c].n = @ + 1, ![c].ctrl = ctrl]
    /\ UNCHANGED <<write_running, write_thread, input_address, current_inputs, lpc, ldata,
                   target, created>>
    /\ UNCHANGED <<cacheVars, perf>>
    /\ UNCHANGED notWriter

\* what a step of a method leaves alone besides the fields it names
BotKeeps(fields) ==
    /\ UNCHANGED fields
    /\ UNCHANGED <<cacheVars, perf>>
    /\ UNCHANGED notWriter

\* stop_writing returns to its caller, which is _reset_game_state or the
\* thread itself
StopReturn(c, ret) ==
    IF cloc[c].op = "_reset_game_state"
    THEN /\ CGoto(c, "reset_game_state_address")
         /\ cloc' = [cloc EXCEPT ![c].ret = ret]
    ELSE CReturn(c, ret)

call_write_inputs(c) ==
    /\ cpc[c] = "idle"
    /\ \E ctrl \in Controllers : CCall(c, "_write_inputs", ctrl, "write_inputs_address")

call_start_writing(c) ==
    /\ cpc[c] = "idle"
    /\ CCall(c, "start_writing", PyNone, "start_writing_check")

call_stop_writing(c) ==
    /\ cpc[c] = "idle"
    /\ CCall(c, "stop_writing", PyNone, "stop_writing_check")

\* _reset_game_state(), from on_game_started and on_game_ended: it begins
\* with self.stop_writing()
call_reset_game_state(c) ==
    /\ cpc[c] = "idle"
    /\ CCall(c, "_reset_game_state", PyNone, "stop_writing_check")

\* if not self.input_address:
write_inputs_address(c) ==
    /\ cpc[c] = "write_inputs_address"
    /\ CGoto(c, IF input_address = 0 THEN "write_inputs_find" ELSE "write_inputs_store")
    /\ BotKeeps(<<write_running, write_thread, input_address, current_inputs, cloc, lpc,
                  ldata, target, created>>)

\* the search of the input address: the GameEvent address, the two
\* read_longlong (use_cache False: the monitor records each) and
\* self.input_address = player_controller_addr + 0x9A8
write_inputs_find(c) ==
    /\ cpc[c] = "write_inputs_find"
    /\ \E game_event_addr \in GameEventAddrs,
          r1 \in Responses(PointerPatterns), r2 \in Responses(PointerPatterns) :
        LET o1 == ReadPrimitive(MMNow, "read_longlong", game_event_addr + LocalPlayersOffset, FALSE, r1, now)
            local_players_array_addr == o1.value.v[1]
            o2 == ReadPrimitive(o1.m, "read_longlong", local_players_array_addr, FALSE, r2, now)
            player_controller_addr == o2.value.v[1]
        IN IF game_event_addr = 0
           THEN /\ CReturn(c, "no_address")
                /\ UNCHANGED <<input_address, perf>>
           ELSE IF local_players_array_addr = 0
           THEN /\ CReturn(c, "no_address")
                /\ perf' = o1.m.perf
                /\ UNCHANGED input_address
           ELSE IF player_controller_addr = 0
           THEN /\ CReturn(c, "no_address")
                /\ perf' = o2.m.perf
                /\ UNCHANGED input_address
           ELSE /\ CGoto(c, "write_inputs_store")
                /\ perf' = o2.m.perf
                /\ input_address' = player_controller_addr + InputOffset
                /\ UNCHANGED cloc
    /\ UNCHANGED <<write_running, write_thread, current_inputs, lpc, ldata, target, created>>
    /\ UNCHANGED cacheVars
    /\ UNCHANGED notWriter

\* self.current_inputs = inputs_dict
write_inputs_store(c) ==
    /\ cpc[c] = "write_inputs_store"
    /\ current_inputs' = cloc[c].ctrl
    /\ CGoto(c, "write_inputs_running")
    /\ BotKeeps(<<write_running, write_thread, input_address, cloc, lpc, ldata, target,
                  created>>)

\* if not self.write_running: self.start_writing()
write_inputs_running(c) ==
    /\ cpc[c] = "write_inputs_running"
    /\ IF write_running
       THEN CReturn(c, "running")
       ELSE CGoto(c, "start_writing_check") /\ UNCHANGED cloc
    /\ BotKeeps(<<write_running, write_thread, input_address, current_inputs, lpc, ldata,
                  target, created>>)

\* start_writing without its guard (a mutant)
start_writing_check_unguarded(c) ==
    /\ cpc[c] = "start_writing_check"
    /\ cloc' = [cloc EXCEPT ![c].found = write_running]
    /\ CGoto(c, "start_writing_set")
    /\ BotKeeps(<<write_running, write_thread, input_address, current_inputs, lpc, ldata,
                  target, created>>)

\* if self.write_running: return
start_writing_check(c) ==
    /\ cpc[c] = "start_writing_check"
    /\ IF write_running
       THEN /\ cpc' = [cpc EXCEPT ![c] = "idle"]
            /\ cloc' = [cloc EXCEPT ![c].op = "none", ![c].ret = "already_running",
                                    ![c].found = TRUE]
       ELSE /\ CGoto(c, "start_writing_set")
            /\ cloc' = [cloc EXCEPT ![c].found = FALSE]
    /\ BotKeeps(<<write_running, write_thread, input_address, current_inputs, lpc, ldata,
                  target, created>>)

\* self.write_running = True
start_writing_set(c) ==
    /\ cpc[c] = "start_writing_set"
    /\ write_running' = TRUE
    /\ cloc' = [k \in Callers |-> [cloc[k] EXCEPT !.restarted = TRUE]]
    /\ CGoto(c, "start_writing_thread")
    /\ BotKeeps(<<write_thread, input_address, current_inputs, lpc, ldata, target, created>>)

\* self.write_thread = Thread(target=self._continuous_write_loop, daemon=True)
start_writing_thread(c) ==
    /\ cpc[c] = "start_writing_thread"
    /\ created' = created + 1
    /\ write_thread' = created + 1
    /\ lpc' = [lpc EXCEPT ![created + 1] = "new"]
    /\ CGoto(c, "start_writing_start")
    /\ BotKeeps(<<write_running, input_address, current_inputs, cloc, ldata, target>>)

\* self.write_thread.start(): RuntimeError when that Thread was started before
start_writing_start(c) ==
    /\ cpc[c] = "start_writing_start"
    /\ IF lpc[write_thread] = "new"
       THEN /\ lpc' = [lpc EXCEPT ![write_thread] = "while"]
            /\ CReturn(c, "started")
       ELSE /\ CReturn(c, "raised")
            /\ UNCHANGED lpc
    /\ BotKeeps(<<write_running, write_thread, input_address, current_inputs, ldata, target,
                  created>>)

\* if not self.write_running: return
stop_writing_check(c) ==
    /\ cpc[c] = "stop_writing_check"
    /\ IF write_running
       THEN /\ CGoto(c, "stop_writing_clear")
            /\ cloc' = [cloc EXCEPT ![c].reset = FALSE, ![c].restarted = FALSE]
       ELSE StopReturn(c, "not_running")
    /\ BotKeeps(<<write_running, write_thread, input_address, current_inputs, lpc, ldata,
                  target, created>>)

\* self.write_running = False
stop_writing_clear(c) ==
    /\ cpc[c] = "stop_writing_clear"
    /\ write_running' = FALSE
    /\ CGoto(c, "stop_writing_address")
    /\ BotKeeps(<<write_thread, input_address, current_inputs, cloc, lpc, ldata, target,
                  created>>)

\* if self.input_address:
stop_writing_address(c) ==
    /\ cpc[c] = "stop_writing_address"
    /\ CGoto(c, IF input_address # 0 THEN "stop_writing_reset" ELSE "stop_writing_alive")
    /\ BotKeeps(<<write_running, write_thread, input_address, current_inputs, cloc, lpc,
                  ldata, target, created>>)

\* self.sdk.mm.write_vehicle_inputs(self.input_address, reset_inputs)
stop_writing_reset(c) ==
    /\ cpc[c] = "stop_writing_reset"
    /\ \E landed \in BOOLEAN :
        LET out == WriteVehicleInputs(MMNow, input_address, ResetInputs, landed)
        IN /\ perf' = out.m.perf
           /\ target' = IF out.value = PyBool(TRUE)
                        THEN Landed(PackVehicleInputs(ResetInputs), "stop_writing")
                        ELSE target
           /\ cloc' = [cloc EXCEPT ![c].reset = (out.value = PyBool(TRUE))]
    /\ CGoto(c, "stop_writing_sleep")
    /\ UNCHANGED <<write_running, write_thread, input_address, current_inputs, lpc, ldata,
                   created>>
    /\ UNCHANGED cacheVars
    /\ UNCHANGED notWriter

\* time.sleep(0.1)
stop_writing_sleep(c) ==
    /\ cpc[c] = "stop_writing_sleep"
    /\ CGoto(c, "stop_writing_alive")
    /\ BotKeeps(<<write_running, write_thread, input_address, current_inputs, cloc, lpc,
                  ldata, target, created>>)

\* if self.write_thread and self.write_thread.is_alive():
stop_writing_alive(c) ==
    /\ cpc[c] = "stop_writing_alive"
    /\ CGoto(c, IF write_thread # 0 /\ Alive(write_thread)
                THEN "stop_writing_join" ELSE "stop_writing_return")
    /\ BotKeeps(<<write_running, write_thread, input_address, current_inputs, cloc, lpc,
                  ldata, target, created>>)

\* self.write_thread.join(timeout=1.0): returns when the thread has ended or
\* when the timeout has passed, whichever comes first
stop_writing_join(c) ==
    /\ cpc[c] = "stop_writing_join"
    /\ \E timeout \in BOOLEAN : timeout \/ ~Alive(write_thread)
    /\ CGoto(c, "stop_writing_return")
    /\ BotKeeps(<<write_running, write_thread, input_address, current_inputs, cloc, lpc,
                  ldata, target, created>>)

\* the print; stop_writing returns
stop_writing_return(c) ==
    /\ cpc[c] = "stop_writing_return"
    /\ StopReturn(c, "stopped")
    /\ BotKeeps(<<write_running, write_thread, input_address, current_inputs, lpc, ldata,
                  target, created>>)

\* self.input_address = None
reset_game_state_address(c) ==
    /\ cpc[c] = "reset_game_state_address"
    /\ input_address' = 0
    /\ CGoto(c, "reset_game_state_inputs")
    /\ BotKeeps(<<write_running, write_thread, current_inputs, cloc, lpc, ldata, target,
                  created>>)

\* self.current_inputs = None; _reset_game_state returns
reset_game_state_inputs(c) ==
    /\ cpc[c] = "reset_game_state_inputs"
    /\ current_inputs' = PyNone
    /\ CReturn(c, "reset")
    /\ BotKeeps(<<write_running, write_thread, input_address, lpc, ldata, target, created>>)

\* while self.write_running:
loop_while(l) ==
    /\ lpc[l] = "while"
    /\ lpc' = [lpc EXCEPT ![l] = IF write_running THEN "if" ELSE "dead"]
    /\ BotKeeps(<<write_running, write_thread, input_address, current_inputs, cpc, cloc,
                  ldata, target, created>>)

\* if self.input_address and self.current_inputs:
loop_if(l) ==
    /\ lpc[l] = "if"
    /\ lpc' = [lpc EXCEPT ![l] = IF input_address # 0 /\ current_inputs.t = "dict"
                                 THEN "pack" ELSE "while"]
    /\ BotKeeps(<<write_running, write_thread, input_address, current_inputs, cpc, cloc,
                  ldata, target, created>>)

\* the loop without its try: the TypeError ends the thread (a mutant)
loop_pack_fatal(l) ==
    /\ lpc[l] = "pack"
    /\ IF current_inputs.t = "dict"
       THEN /\ ldata' = [ldata EXCEPT ![l] = LoopPack(current_inputs)]
            /\ lpc' = [lpc EXCEPT ![l] = "write"]
       ELSE /\ lpc' = [lpc EXCEPT ![l] = "dead"]
            /\ UNCHANGED ldata
    /\ BotKeeps(<<write_running, write_thread, input_address, current_inputs, cpc, cloc,
                  target, created>>)
\* inp = self.current_inputs; flags = ...; data = struct.pack('<7fI', ...):
\* TypeError when current_inputs is None by now, swallowed by the except
loop_pack(l) ==
    /\ lpc[l] = "pack"
    /\ IF current_inputs.t = "dict"
       THEN /\ ldata' = [ldata EXCEPT ![l] = LoopPack(current_inputs)]
            /\ lpc' = [lpc EXCEPT ![l] = "write"]
       ELSE /\ lpc' = [lpc EXCEPT ![l] = "while"]
            /\ UNCHANGED ldata
    /\ BotKeeps(<<write_running, write_thread, input_address, current_inputs, cpc, cloc,
                  target, created>>)

\* self.sdk.mm.pm.write_bytes(self.input_address, data, 32): an exception of
\* pymem is swallowed by the except
loop_write(l) ==
    /\ lpc[l] = "write"
    /\ \E landed \in BOOLEAN :
        target' = IF landed /\ input_address # 0
                  THEN Landed(ldata[l], "_continuous_write_loop")
                  ELSE target
    /\ lpc' = [lpc EXCEPT ![l] = "while"]
    /\ ldata' = [ldata EXCEPT ![l] = <<>>]
    /\ BotKeeps(<<write_running, write_thread, input_address, current_inputs, cpc, cloc,
                  created>>)

CallerStep(c) ==
    \/ call_write_inputs(c) \/ call_start_writing(c) \/ call_stop_writing(c)
    \/ call_reset_game_state(c)
    \/ write_inputs_address(c) \/ write_inputs_find(c) \/ write_inputs_store(c)
    \/ write_inputs_running(c)
    \/ start_writing_check(c) \/ start_writing_set(c) \/ start_writing_thread(c)
    \/ start_writing_start(c)
    \/ stop_writing_check(c) \/ stop_writing_clear(c) \/ stop_writing_address(c)
    \/ stop_writing_reset(c) \/ stop_writing_sleep(c) \/ stop_writing_alive(c)
    \/ stop_writing_join(c) \/ stop_writing_return(c)
    \/ reset_game_state_address(c) \/ reset_game_state_inputs(c)

LoopStep(l) == loop_while(l) \/ loop_if(l) \/ loop_pack(l) \/ loop_write(l)

WriterNext == (\E c \in Callers : CallerStep(c)) \/ (\E l \in Loops : LoopStep(l))

\* ------------------------------------------------------------------------
\* core/memory_manager.py on one place of the process memory: the vector
\* and the input structure at AccAddr, read and written by the callers
\* ------------------------------------------------------------------------
AccAddr == 16

\* the float 2.0 by its bits
FloatTwo == 1073741824

\* the process memory at AccAddr: 32 bytes, and which of the first three
\* words can be read (the words after them can)
Region(data, readable) == [data |-> data, readable |-> readable]

\* the control-input structures: throttle, steer, pitch, yaw, roll,
\* dodge_forward, dodge_right, handbrake, jump, boost
InputStructures ==
    {InputsDict(<<throttle, 0, pitch, yaw, 0, dodge_forward, dodge_right>>, handbrake, jump, boost) :
        throttle \in {0, FloatOne}, pitch \in {0, FloatOne, FloatMinusOne},
        yaw \in {0, FloatOne}, dodge_forward \in {0, FloatOne}, dodge_right \in {0},
        handbrake \in {0, 1}, jump \in {0, 1}, boost \in {0, 1}}

\* the keys write_vehicle_inputs gets from the structure: throttle, steer,
\* pitch, yaw, roll, handbrake, jump, boost
InputsGot(inputs) ==
    ControllerDict(inputs.v[1], inputs.v[2], inputs.v[3], inputs.v[4], inputs.v[5],
                   inputs.v[8], inputs.v[9], inputs.v[10])

\* what the callers hold: the triple of read_vector3, the three values of
\* read_float, the structure whose write landed last, the outcome of the
\* last write call and the dictionary of read_vehicle_inputs
ACallRec(vector, floats, written, wrote, decoded) ==
    [vector |-> vector, floats |-> floats, written |-> written, wrote |-> wrote,
     decoded |-> decoded]

NoWrite == [op |-> "none", value |-> PyNone, raised |-> FALSE, writes |-> <<>>]

NoACall == ACallRec(PyNone, <<PyNone, PyNone, PyNone>>, PyNone, NoWrite, PyNone)

AccParked ==
    /\ region = Region(<<>>, {})
    /\ acall = NoACall

\* the process holds the vector (1.0, -1.0, 2.0) and zeros after it
AccInit ==
    /\ region \in {Region(PackWord(FloatOne) \o PackWord(FloatMinusOne) \o PackWord(FloatTwo)
                             \o Zeros(20), readable) : readable \in SUBSET {0, 1, 2}}
    /\ acall = NoACall

\* the answer of the process to a read of words first .. first + n - 1
RegionResp(first, n) ==
    Resp(\A w \in first .. (first + n - 1) : w > 2 \/ w \in region.readable,
         <<"at0", "at4", "at8">>[first + 1])

\* the state a call leaves in the MemoryManager
AReturn(out) ==
    /\ cache' = out.m.cache
    /\ hits' = out.m.hits
    /\ misses' = out.m.misses
    /\ perf' = out.m.perf
    /\ UNCHANGED <<default_ttl, now>>
    /\ UNCHANGED notAccessor

\* self.mm.read_vector3(AccAddr), on the memory as the process holds it
acc_read_vector3 ==
    /\ acall.vector = PyNone
    /\ acall.wrote.op = "none"
    /\ LET out == ReadComposite(MMNow, "read_vector3", AccAddr, FALSE, RegionResp(0, 3), now)
       IN /\ acall' = [acall EXCEPT !.vector = out.value]
          /\ AReturn(out)
    /\ UNCHANGED region

\* self.mm.read_float(AccAddr), read_float(AccAddr + 4), read_float(AccAddr + 8)
acc_read_float ==
    /\ acall.wrote.op = "none"
    /\ \E k \in 0 .. 2 :
          /\ acall.floats[k + 1] = PyNone
          /\ LET out == ReadPrimitive(MMNow, "read_float", AccAddr + 4 * k, FALSE,
                                        RegionResp(k, 1), now)
             IN /\ acall' = [acall EXCEPT !.floats[k + 1] = out.value]
                /\ AReturn(out)
    /\ UNCHANGED region

\* a write that landed replaces the bytes; what was read before is of the
\* old memory
AWrote(op, out, data, written) ==
    LET ok == out.value = PyBool(TRUE)
    IN /\ region' = IF ok THEN [region EXCEPT !.data = data \o SubSeq(@, Len(data) + 1, Len(@))]
                     ELSE region
       /\ acall' = IF ok
                   THEN ACallRec(PyNone, <<PyNone, PyNone, PyNone>>, written,
                                 [op |-> op, value |-> out.value, raised |-> out.raised,
                                  writes |-> out.reads], PyNone)
                   ELSE [acall EXCEPT !.wrote = [op |-> op, value |-> out.value,
                                                 raised |-> out.raised, writes |-> out.reads]]
       /\ AReturn(out)

\* self.mm.write_bytes(AccAddr, data)
acc_write_bytes ==
    /\ acall.wrote.op = "none"
    /\ \E data \in {PackWord(FloatTwo), PackWord(0) \o PackWord(FloatOne)}, landed \in BOOLEAN :
          AWrote("write_bytes", WriteBytes(MMNow, AccAddr, data, landed), data, PyNone)

\* self.mm.write_vehicle_inputs(AccAddr, inputs)
acc_write_vehicle_inputs ==
    /\ acall.wrote.op = "none"
    /\ \E inputs \in InputStructures, landed \in BOOLEAN :
          AWrote("write_vehicle_inputs",
                 WriteVehicleInputs(MMNow, AccAddr, InputsGot(inputs), landed),
                 PackVehicleInputs(InputsGot(inputs)), inputs)

\* self.mm.read_vehicle_inputs(AccAddr)
acc_read_vehicle_inputs ==
    /\ acall.decoded = PyNone
    /\ LET out == ReadVehicleInputs(MMNow, AccAddr, RegionResp(0, 8))
       IN /\ acall' = [acall EXCEPT !.decoded = out.value]
          /\ AReturn(out)
    /\ UNCHANGED region

AccessorNext ==
    \/ acc_read_vector3
    \/ acc_read_float
    \/ acc_write_bytes
    \/ acc_write_vehicle_inputs
    \/ acc_read_vehicle_inputs

\* ------------------------------------------------------------------------
\* core/offset_scanner.py: OffsetScanner.find_offsets on the image of the
\* RocketLeague.exe module
\* ------------------------------------------------------------------------
EXPECTED_OFFSET_DIFF == 72

\* module.lpBaseOfDll, which is also MemoryManager.base_address
ModuleBase == 3840

\* MEMORY_PATTERNS of utils/constants.py
MEMORY_PATTERNS(name) ==
    CASE name = "GObjects_Current" ->
           <<72, 139, 200, 72, 139, 5, 0, 0, 0, 0, 72, 139, 12, 200>>
      [] name = "GNames_Current1" ->
           <<72, 139, 13, 0, 0, 0, 0, 72, 139, 12, 193>>
      [] name = "GNames_Current2" ->
           <<73, 99, 6, 72, 141, 85, 232, 72, 139, 13, 0, 0, 0, 0, 72, 139, 12, 193>>
      [] name = "GNames_Legacy1" ->
           <<117, 5, 232, 0, 0, 0, 0, 133, 219, 117, 49>>
      [] name = "GObjects_Legacy1" ->
           <<232, 0, 0, 0, 0, 139, 93, 191, 72>>

\* the legacy chains with the delta left out (a mutant)
Chain_nodelta(name) ==
    CASE name = "GObjects_Current" -> [table |-> "GObjects", sub |-> 6, hops |-> 1, delta |-> 0]
      [] name = "GNames_Current1" -> [table |-> "GNames", sub |-> 3, hops |-> 1, delta |-> 0]
      [] name = "GNames_Current2" -> [table |-> "GNames", sub |-> 10, hops |-> 1, delta |-> 0]
      [] name = "GNames_Legacy1" -> [table |-> "GNames", sub |-> 3, hops |-> 2, delta |-> 0]
      [] name = "GObjects_Legacy1" -> [table |-> "GObjects", sub |-> 1, hops |-> 2, delta |-> 0]

\* the signature chains: the table resolved, where the displacement field
\* lies after the match, and for the two-hop extractors the delta added
\* before the second field (_extract_gobjects_current, _extract_gnames_method1,
\* _extract_gnames_method2, _extract_legacy_gnames, _extract_legacy_gobjects)
Chain(name) ==
    CASE name = "GObjects_Current" -> [table |-> "GObjects", sub |-> 6, hops |-> 1, delta |-> 0]
      [] name = "GNames_Current1" -> [table |-> "GNames", sub |-> 3, hops |-> 1, delta |-> 0]
      [] name = "GNames_Current2" -> [table |-> "GNames", sub |-> 10, hops |-> 1, delta |-> 0]
      [] name = "GNames_Legacy1" -> [table |-> "GNames", sub |-> 3, hops |-> 2, delta |-> 39]
      [] name = "GObjects_Legacy1" -> [table |-> "GObjects", sub |-> 1, hops |-> 2, delta |-> 101]

ChainNames ==
    {"GObjects_Current", "GNames_Current1", "GNames_Current2", "GNames_Legacy1",
     "GObjects_Legacy1"}

\* the code of the module around the signatures
Fill(n) == [i \in 1 .. n |-> 144]

\* an instruction sequence of the module that a signature matches, with the
\* displacement d in its field
Plant(name, d) ==
    LET pattern == MEMORY_PATTERNS(name)
        sub == Chain(name).sub
    IN [i \in 1 .. Len(pattern) |->
          IF i > sub /\ i <= sub + 4 THEN PackWord(d)[i - sub] ELSE pattern[i]]

\* one module image: at offset 0 the GObjects sequence, at 14 the GNames
\* sequence (the short one at 21), at 32 and 43 the legacy sequences, whose
\* first displacements lead to the second fields at 52 and 56; go, gn, lgn,
\* lgo are [kind, d]: which sequence the build has and the displacement to
\* the table
Image(go, gn, lgn, lgo) ==
    (IF go.kind = "none" THEN Fill(14) ELSE Plant("GObjects_Current", go.d))
      \o (CASE gn.kind = "none" -> Fill(18)
            [] gn.kind = "current1" -> Fill(7) \o Plant("GNames_Current1", gn.d)
            [] gn.kind = "current2" -> Plant("GNames_Current2", gn.d))
      \o (IF lgn.kind = "none" THEN Fill(11) ELSE Plant("GNames_Legacy1", -29))
      \o (IF lgo.kind = "none" THEN Fill(9) ELSE Plant("GObjects_Legacy1", -96))
      \o PackWord(lgn.d) \o PackWord(lgo.d) \o Fill(4)

Build(kind, d) == [kind |-> kind, d |-> d]

\* the builds of the module the scanner may meet
Images ==
    {Image(go, gn, lgn, lgo) :
        go \in {Build("none", 0), Build("current", 326), Build("current", -3850)},
        gn \in {Build("none", 0), Build("current1", 228), Build("current1", 236),
                Build("current1", 380), Build("current2", 228)},
        lgn \in {Build("none", 0), Build("legacy", 200), Build("legacy", 208)},
        lgo \in {Build("none", 0), Build("legacy", 276)}}

\* bool(x) of an Optional[int]
Truthy(x) == x.t = "int" /\ x.v[1] # 0

Abs(n) == IF n < 0 THEN 0 - n ELSE n

\* self.mm.read_bytes(address, size) on the image: readable is whether the
\* process lets the region be read; memory outside the module is not mapped
ReadImage(m, img, address, size, readable) ==
    LET inside == address >= ModuleBase /\ address + size <= ModuleBase + Len(img)
        data == IF readable /\ inside
                THEN PyBytes(Slice(img, address - ModuleBase, address - ModuleBase + size))
                ELSE PyNone
    IN WithTiming(TryExcept(Out(m, data, data = PyNone, <<>>), PyBytes(Zeros(size))),
                  "read_bytes")

\* 0xBB taken for a wildcard as well (a mutant)
PatternMatches_lax(memory, offset, pattern) ==
    \A i \in 1 .. Len(pattern) :
        pattern[i] = 0 \/ pattern[i] = 187 \/ memory[offset + i] = pattern[i]

\* OffsetScanner._pattern_matches(memory, offset, pattern): 0x00 is a wildcard
PatternMatches(memory, offset, pattern) ==
    \A i \in 1 .. Len(pattern) : pattern[i] = 0 \/ memory[offset + i] = pattern[i]

\* OffsetScanner._scan_pattern(pattern, name): the module lookup, the read
\* of the whole image and the first offset of range(len(dump) - len(pattern))
\* that matches; None when the lookup raises or nothing matches
ScanPattern(m, img, pattern, oks) ==
    LET dump == ReadImage(m, img, ModuleBase, Len(img), oks.scan)
        hits_ == {i \in 0 .. (Len(dump.value.v) - Len(pattern) - 1) :
                     PatternMatches(dump.value.v, i, pattern)}
        first == CHOOSE i \in hits_ : \A j \in hits_ : i <= j
    IN IF ~oks.module THEN [m |-> m, addr |-> PyNone, failed |-> {"module"}]
       ELSE [m |-> dump.m, addr |-> IF hits_ = {} THEN PyNone ELSE PyInt(ModuleBase + first),
             failed |-> IF oks.scan THEN {} ELSE {"scan"}]

\* the extractor of a chain: offset_addr + rel_offset + 4, twice with the
\* delta in between for the legacy chains; struct.unpack('i') is signed
Extract(m, img, name, pattern_addr, oks) ==
    LET c == Chain(name)
        f1 == pattern_addr + c.sub
        r1 == ReadImage(m, img, f1, 4, oks.hop1)
        a1 == f1 + Signed32(r1.value.v) + 4
        f2 == a1 + c.delta + 3
        r2 == ReadImage(r1.m, img, f2, 4, oks.hop2)
        inside(f) == f >= ModuleBase /\ f + 4 <= ModuleBase + Len(img)
        failed1 == IF oks.hop1 /\ inside(f1) THEN {} ELSE {"hop1"}
        failed2 == IF oks.hop2 /\ inside(f2) THEN {} ELSE {"hop2"}
    IN IF c.hops = 1 THEN [m |-> r1.m, address |-> PyInt(a1), failed |-> failed1]
       ELSE [m |-> r2.m, address |-> PyInt(f2 + Signed32(r2.value.v) + 4),
             failed |-> failed1 \cup failed2]

\* pattern_addr = self._scan_pattern(...); if pattern_addr: x = self._extract...(pattern_addr):
\* value is what the variable of the table holds afterwards
TryChain(m, img, name, current, oks) ==
    LET s == ScanPattern(m, img, MEMORY_PATTERNS(name), oks)
        e == Extract(s.m, img, name, s.addr.v[1], oks)
    IN IF Truthy(s.addr)
       THEN [m |-> e.m, pattern_addr |-> s.addr, address |-> e.address, value |-> e.address,
             failed |-> e.failed]
       ELSE [m |-> s.m, pattern_addr |-> s.addr, address |-> PyNone, value |-> current,
             failed |-> s.failed]

\* every chain tried in turn, whatever the earlier ones yielded (a mutant)
After_all(name, gnames, gobjects) ==
    CASE name = "GObjects_Current" -> "GNames_Current1"
      [] name = "GNames_Current1" -> "GNames_Current2"
      [] name = "GNames_Current2" -> "GNames_Legacy1"
      [] name = "GNames_Legacy1" -> "GObjects_Legacy1"
      [] name = "GObjects_Legacy1" -> "validate"

\* what find_offsets does after a chain, gnames and gobjects being the
\* addresses held by then: "if not gnames_address:" before method 2,
\* "if not gnames_address or not gobjects_address:" before
\* _try_legacy_patterns, "if not gnames:" and "if not gobjects:" in it
After(name, gnames, gobjects) ==
    LET legacy == IF ~Truthy(gnames) THEN "GNames_Legacy1"
                  ELSE IF ~Truthy(gobjects) THEN "GObjects_Legacy1"
                  ELSE "validate"
    IN CASE name = "GObjects_Current" -> "GNames_Current1"
         [] name = "GNames_Current1" -> IF ~Truthy(gnames) THEN "GNames_Current2" ELSE legacy
         [] name = "GNames_Current2" -> legacy
         [] name = "GNames_Legacy1" -> IF ~Truthy(gobjects) THEN "GObjects_Legacy1" ELSE "validate"
         [] name = "GObjects_Legacy1" -> "validate"

\* the correction taken from the wrong side (a mutant)
Corrected_plus(a, b) ==
    IF Abs(b - a) # EXPECTED_OFFSET_DIFF THEN b + EXPECTED_OFFSET_DIFF ELSE a

\* offset_diff = abs(gobjects_address - gnames_address); if offset_diff !=
\* EXPECTED_OFFSET_DIFF: gnames_address = gobjects_address - EXPECTED_OFFSET_DIFF
Corrected(a, b) ==
    IF Abs(b - a) # EXPECTED_OFFSET_DIFF THEN b - EXPECTED_OFFSET_DIFF ELSE a

\* the offsets returned as soon as GObjects is there, unvalidated (a mutant)
Validate_unchecked(gnames, gobjects) ==
    IF Truthy(gobjects)
    THEN [gnames |-> gnames,
          offsets |-> <<IF Truthy(gnames) THEN PyInt(gnames.v[1] - ModuleBase) ELSE PyNone,
                        PyInt(gobjects.v[1] - ModuleBase)>>]
    ELSE [gnames |-> gnames, offsets |-> <<PyNone, PyNone>>]

\* "if gnames_address and gobjects_address:" the correction and the offsets
\* relative to self.base_address; (None, None) otherwise
Validate(gnames, gobjects) ==
    IF Truthy(gnames) /\ Truthy(gobjects)
    THEN LET a == Corrected(gnames.v[1], gobjects.v[1])
         IN [gnames |-> PyInt(a),
             offsets |-> <<PyInt(a - ModuleBase), PyInt(gobjects.v[1] - ModuleBase)>>]
    ELSE [gnames |-> gnames, offsets |-> <<PyNone, PyNone>>]

\* a HazeSDK object: the stage of __init__ it is at (or the exception that
\* left __init__), self.gnames_offset and self.gobjects_offset (None while
\* unset), whether frida.attach gave a session, the stages of __init__ run
\* after _find_offsets, and the addresses they read in the process
SdkRec(pc, gnames_offset, gobjects_offset, frida, executed, reads) ==
    [pc |-> pc, gnames_offset |-> gnames_offset, gobjects_offset |-> gobjects_offset,
     frida |-> frida, executed |-> executed, reads |-> reads]

SdkParked == SdkRec("none", PyNone, PyNone, FALSE, <<>>, <<>>)

\* HazeSDK.__init__ up to its call of self._find_offsets()
SdkNew == SdkRec("_find_offsets", PyNone, PyNone, FALSE, <<>>, <<>>)

\* a call of one method of the scanner: the method, its arguments (the
\* pattern, the offset, the chain of the extractor, the match address), the
\* reads that failed in it, whether an exception left it and what it returned
ProbeRec(op, pattern, offset, name, addr, failed, raised, result) ==
    [op |-> op, pattern |-> pattern, offset |-> offset, name |-> name, addr |-> addr,
     failed |-> failed, raised |-> raised, result |-> result]

NoProbe == ProbeRec("none", <<>>, 0, "none", 0, {}, FALSE, PyNone)

\* no scanner at work
LocParked ==
    /\ image = <<>>
    /\ fpc = "none"
    /\ gnames_address = PyNone
    /\ gobjects_address = PyNone
    /\ tried = <<>>
    /\ offsets = <<PyNone, PyNone>>
    /\ sdk = SdkParked
    /\ probe = NoProbe

\* OffsetScanner(memory_manager).find_offsets() is called on some build
LocInit ==
    /\ image \in Images
    /\ fpc = "module"
    /\ gnames_address = PyNone
    /\ gobjects_address = PyNone
    /\ tried = <<>>
    /\ offsets = <<PyNone, PyNone>>
    /\ sdk = SdkNew
    /\ probe = NoProbe

\* the module lookup outside any handler: its exception leaves find_offsets
\* (a mutant)
find_offsets_module_uncaught ==
    /\ fpc = "module"
    /\ \E found \in BOOLEAN : fpc' = IF found THEN "GObjects_Current" ELSE "raised"
    /\ UNCHANGED <<image, gnames_address, gobjects_address, tried, offsets, sdk, probe>>
    /\ UNCHANGED <<cacheVars, perf>>
    /\ UNCHANGED notLocator

\* module = pymem.process.module_from_name(...); module.lpBaseOfDll: an
\* exception here is caught by find_offsets, which returns (None, None)
find_offsets_module ==
    /\ fpc = "module"
    /\ \E found \in BOOLEAN : fpc' = IF found THEN "GObjects_Current" ELSE "done"
    /\ UNCHANGED <<image, gnames_address, gobjects_address, tried, offsets, sdk, probe>>
    /\ UNCHANGED <<cacheVars, perf>>
    /\ UNCHANGED notLocator

\* one chain: the scan, the extraction when the signature was found, and
\* the choice of what comes next; oks says which of the module lookup, the
\* read of the image and the reads of the displacement fields succeed
find_offsets_chain ==
    /\ fpc \in ChainNames
    /\ \E oks \in [module : BOOLEAN, scan : BOOLEAN, hop1 : BOOLEAN, hop2 : BOOLEAN] :
        LET names == Chain(fpc).table = "GNames"
            t == TryChain(MMNow, image, fpc,
                          IF names THEN gnames_address ELSE gobjects_address, oks)
            gnames == IF names THEN t.value ELSE gnames_address
            gobjects == IF names THEN gobjects_address ELSE t.value
        IN /\ perf' = t.m.perf
           /\ gnames_address' = gnames
           /\ gobjects_address' = gobjects
           /\ tried' = Append(tried, [chain |-> fpc, pattern_addr |-> t.pattern_addr,
                                      address |-> t.address, failed |-> t.failed])
           /\ fpc' = After(fpc, gnames, gobjects)
    /\ UNCHANGED <<image, offsets, sdk, probe>>
    /\ UNCHANGED cacheVars
    /\ UNCHANGED notLocator

\* the validation and the return of find_offsets
find_offsets_validate ==
    /\ fpc = "validate"
    /\ gnames_address' = Validate(gnames_address, gobjects_address).gnames
    /\ offsets' = Validate(gnames_address, gobjects_address).offsets
    /\ fpc' = "done"
    /\ UNCHANGED <<image, gobjects_address, tried, sdk, probe>>
    /\ UNCHANGED <<cacheVars, perf>>
    /\ UNCHANGED notLocator

\* HazeSDK._find_offsets: the pair of scanner.find_offsets() is tested, "if
\* gnames_offset is None or gobjects_offset is None: raise RuntimeError",
\* and stored in self.gnames_offset and self.gobjects_offset (a mutant
\* without the test)
sdk_find_offsets_unchecked ==
    /\ fpc = "done"
    /\ sdk.pc = "_find_offsets"
    /\ sdk' = [sdk EXCEPT !.pc = "_init_frida", !.gnames_offset = offsets[1],
                          !.gobjects_offset = offsets[2]]
    /\ UNCHANGED <<image, fpc, gnames_address, gobjects_address, tried, offsets, probe>>
    /\ UNCHANGED <<cacheVars, perf>>
    /\ UNCHANGED notLocator

sdk_find_offsets ==
    /\ fpc = "done"
    /\ sdk.pc = "_find_offsets"
    /\ sdk' = IF offsets[1] = PyNone \/ offsets[2] = PyNone
              THEN [sdk EXCEPT !.pc = "RuntimeError"]
              ELSE [sdk EXCEPT !.pc = "_init_frida", !.gnames_offset = offsets[1],
                               !.gobjects_offset = offsets[2]]
    /\ UNCHANGED <<image, fpc, gnames_address, gobjects_address, tried, offsets, probe>>
    /\ UNCHANGED <<cacheVars, perf>>
    /\ UNCHANGED notLocator

\* HazeSDK._init_frida: frida.attach and the script, whose failure is
\* caught and printed
sdk_init_frida ==
    /\ sdk.pc = "_init_frida"
    /\ \E attached \in BOOLEAN :
          sdk' = [sdk EXCEPT !.pc = "_load_gnames", !.frida = attached,
                             !.executed = Append(@, "_init_frida")]
    /\ UNCHANGED <<image, fpc, gnames_address, gobjects_address, tried, offsets, probe>>
    /\ UNCHANGED <<cacheVars, perf>>
    /\ UNCHANGED notLocator

\* the head of a table: array_data_addr = self.mm.read_longlong(addr) and
\* array_count = self.mm.read_int(addr + 0x8); base_address + None raises
\* TypeError
TableHead(m, offset, r1, r2, t) ==
    LET addr == ModuleBase + offset.v[1]
        data == ReadPrimitive(m, "read_longlong", addr, FALSE, r1, t)
        count == ReadPrimitive(data.m, "read_int", addr + 8, FALSE, r2, t)
    IN IF offset.t # "int"
       THEN [m |-> m, raised |-> TRUE, count |-> 0, reads |-> <<>>]
       ELSE [m |-> count.m, raised |-> FALSE, count |-> Min(count.value.v[1], 100000),
             reads |-> <<addr, addr + 8>>]

\* what the process answers to the reads of a table head: the tables of
\* the process are empty or unreadable
HeadResponses == Responses({"zero"})

\* HazeSDK._load_gnames and HazeSDK._find_functions: the head of the table
\* at base_address + offset is read and range(min(array_count, 100000)) is
\* walked
SdkTable(stage, offset, next) ==
    /\ \E r1 \in HeadResponses, r2 \in HeadResponses :
          LET h == TableHead(MMNow, offset, r1, r2, now)
          IN /\ perf' = h.m.perf
             /\ sdk' = [sdk EXCEPT !.pc = IF h.raised THEN "TypeError" ELSE next,
                                   !.executed = Append(@, stage),
                                   !.reads = @ \o h.reads]
    /\ UNCHANGED <<image, fpc, gnames_address, gobjects_address, tried, offsets, probe>>
    /\ UNCHANGED cacheVars
    /\ UNCHANGED notLocator

sdk_load_gnames ==
    /\ sdk.pc = "_load_gnames"
    /\ SdkTable("_load_gnames", sdk.gnames_offset, "_find_functions")

sdk_find_functions ==
    /\ sdk.pc = "_find_functions"
    /\ SdkTable("_find_functions", sdk.gobjects_offset, "_setup_hooks")

\* HazeSDK._setup_hooks: no class and no function was found in the empty
\* tables, so nothing is read and nothing is hooked
sdk_setup_hooks ==
    /\ sdk.pc = "_setup_hooks"
    /\ sdk' = [sdk EXCEPT !.pc = "complete", !.executed = Append(@, "_setup_hooks")]
    /\ UNCHANGED <<image, fpc, gnames_address, gobjects_address, tried, offsets, probe>>
    /\ UNCHANGED <<cacheVars, perf>>
    /\ UNCHANGED notLocator

\* _pattern_matches called at any offset of the buffer: the loop stops with
\* False at the first non-wildcard byte that differs and memory[offset + i]
\* raises IndexError past the end of the buffer
PatternMatchesCall(memory, offset, pattern) ==
    LET decides == {i \in 1 .. Len(pattern) :
                       /\ pattern[i] # 0
                       /\ (offset + i > Len(memory) \/ memory[offset + i] # pattern[i])}
        first == CHOOSE i \in decides : \A j \in decides : i <= j
    IN IF decides # {} /\ offset + first > Len(memory)
       THEN [raised |-> TRUE, value |-> PyNone]
       ELSE [raised |-> FALSE, value |-> PyBool(PatternMatches(memory, offset, pattern))]

\* the bytes of the buffers and signatures the methods are called on
ProbeBytes == {170, 255, 187}

MaxBuffer == 4

\* the short buffers, the buffer 11 AA FF BB 22, the ends of modules that
\* hold one instruction sequence with its displacement, and those that hold
\* a legacy sequence with its second field
Displacements == {-2147483647 - 1, -3850, -1, 0, 326, 2147479551}

\* a legacy instruction sequence and its second field, holding the
\* displacement d: right after the sequence, the first displacement leading
\* back to it (-38 + 0x27 and -100 + 0x65), or further on, the first
\* displacement being 2
PlantLegacy(name, far, d) ==
    LET len == Len(MEMORY_PATTERNS(name))
        d1 == IF far THEN 2 ELSE IF name = "GNames_Legacy1" THEN -38 ELSE -100
        f2 == IF ~far THEN len ELSE IF name = "GNames_Legacy1" THEN 51 ELSE 111
    IN Plant(name, d1) \o Fill(f2 - len) \o PackWord(d)

LegacyDisplacements == {-3850, 0, 326}

ProbeBuffers ==
    UNION {[1 .. n -> ProbeBytes] : n \in 1 .. MaxBuffer}
      \cup {<<17, 170, 255, 187, 34>>}
      \cup {Fill(k) \o Plant(name, d) :
               k \in {0, 2}, name \in {"GObjects_Current", "GNames_Current1", "GNames_Current2"},
               d \in Displacements}
      \cup {PlantLegacy(name, far, d) :
               name \in {"GNames_Legacy1", "GObjects_Legacy1"}, far \in BOOLEAN,
               d \in LegacyDisplacements}

\* the signatures: short ones with and without wildcards, and those of
\* the current chains
Signatures ==
    UNION {[1 .. n -> {170, 0, 187}] : n \in 1 .. 3}
      \cup {MEMORY_PATTERNS(name) :
               name \in {"GObjects_Current", "GNames_Current1", "GNames_Current2"}}

\* one method of the scanner is called on a buffer
ProbeInit ==
    /\ image \in ProbeBuffers
    /\ fpc = "none"
    /\ gnames_address = PyNone
    /\ gobjects_address = PyNone
    /\ tried = <<>>
    /\ offsets = <<PyNone, PyNone>>
    /\ sdk = SdkParked
    /\ probe = NoProbe

\* self._scan_pattern(pattern, name)
scan_pattern ==
    /\ probe.op = "none"
    /\ \E pattern \in Signatures, oks \in [module : BOOLEAN, scan : BOOLEAN] :
          LET r == ScanPattern(MMNow, image, pattern, oks)
          IN /\ perf' = r.m.perf
             /\ probe' = ProbeRec("_scan_pattern", pattern, 0, "none", 0, r.failed, FALSE, r.addr)
    /\ UNCHANGED <<image, fpc, gnames_address, gobjects_address, tried, offsets, sdk>>
    /\ UNCHANGED cacheVars
    /\ UNCHANGED notLocator

\* self._pattern_matches(memory, offset, pattern)
pattern_matches ==
    /\ probe.op = "none"
    /\ \E pattern \in Signatures, offset \in 0 .. (Len(image) - 1) :
          LET r == PatternMatchesCall(image, offset, pattern)
          IN probe' = ProbeRec("_pattern_matches", pattern, offset, "none", 0, {}, r.raised,
                               r.value)
    /\ UNCHANGED <<image, fpc, gnames_address, gobjects_address, tried, offsets, sdk>>
    /\ UNCHANGED <<cacheVars, perf>>
    /\ UNCHANGED notLocator

\* self._extract_gobjects_current(pattern_addr), _extract_gnames_method1,
\* _extract_gnames_method2, _extract_legacy_gnames, _extract_legacy_gobjects
extract ==
    /\ probe.op = "none"
    /\ \E name \in ChainNames, pattern_addr \in ModuleBase .. (ModuleBase + Len(image) - 1),
          oks \in [hop1 : BOOLEAN, hop2 : BOOLEAN] :
          LET r == Extract(MMNow, image, name, pattern_addr, oks)
          IN /\ perf' = r.m.perf
             /\ probe' = ProbeRec("_extract", <<>>, 0, name, pattern_addr, r.failed, FALSE,
                                  r.address)
    /\ UNCHANGED <<image, fpc, gnames_address, gobjects_address, tried, offsets, sdk>>
    /\ UNCHANGED cacheVars
    /\ UNCHANGED notLocator

ScannerNext == scan_pattern \/ pattern_matches \/ extract

LocatorNext ==
    \/ find_offsets_module
    \/ find_offsets_chain
    \/ find_offsets_validate
    \/ sdk_find_offsets
    \/ sdk_init_frida
    \/ sdk_load_gnames
    \/ sdk_find_functions
    \/ sdk_setup_hooks

\* ------------------------------------------------------------------------
\* utils/performance.py: PerformanceMonitor and TimingStats. A timing is a
\* whole number of ticks of time.perf_counter.
\* ------------------------------------------------------------------------
\* len(self.recent_times) > 100
RecentCap == 100

\* TimingStats; min_time is <<>> while it is float('inf')
TimingStats(name, total_time, count, min_time, max_time, recent_times) ==
    [name |-> name, total_time |-> total_time, count |-> count, min_time |-> min_time,
     max_time |-> max_time, recent_times |-> recent_times]

\* TimingStats(name)
NewStats(name) == TimingStats(name, 0, 0, <<>>, 0, <<>>)

\* TimingStats.add_time with recent_times never trimmed (a mutant)
add_time_untrimmed(s, elapsed) ==
    TimingStats(s.name, s.total_time + elapsed, s.count + 1,
                <<IF s.min_time = <<>> THEN elapsed ELSE Min(s.min_time[1], elapsed)>>,
                IF s.max_time > elapsed THEN s.max_time ELSE elapsed,
                Append(s.recent_times, elapsed))

\* TimingStats.add_time(elapsed)
add_time(s, elapsed) ==
    LET appended == Append(s.recent_times, elapsed)
    IN TimingStats(s.name, s.total_time + elapsed, s.count + 1,
                   <<IF s.min_time = <<>> THEN elapsed ELSE Min(s.min_time[1], elapsed)>>,
                   IF s.max_time > elapsed THEN s.max_time ELSE elapsed,
                   IF Len(appended) > RecentCap THEN Tail(appended) ELSE appended)

\* TimingStats.avg_time and recent_avg, as the pair (sum, number of samples);
\* 0.0 is (0, 1)
RECURSIVE SumFrom(_, _)
SumFrom(xs, i) == IF i > Len(xs) THEN 0 ELSE xs[i] + SumFrom(xs, i + 1)

avg_time(s) == IF s.count > 0 THEN <<s.total_time, s.count>> ELSE <<0, 1>>

recent_avg(s) ==
    IF s.recent_times = <<>> THEN <<0, 1>> ELSE <<SumFrom(s.recent_times, 1), Len(s.recent_times)>>

\* a PerformanceMonitor: _stats and _enabled
Monitor(st, en) == [stats |-> st, enabled |-> en]

\* PerformanceMonitor.record with the test of _enabled left out (a mutant)
Monitor_record_always(mon, name, elapsed) ==
    LET st == IF name \in DOMAIN mon.stats THEN mon.stats
              ELSE DictPut(mon.stats, name, NewStats(name))
    IN [mon EXCEPT !.stats = DictPut(st, name, add_time(st[name], elapsed))]

\* PerformanceMonitor.record(name, elapsed)
Monitor_record(mon, name, elapsed) ==
    IF ~mon.enabled THEN mon
    ELSE LET st == IF name \in DOMAIN mon.stats THEN mon.stats
                   ELSE DictPut(mon.stats, name, NewStats(name))
         IN [mon EXCEPT !.stats = DictPut(st, name, add_time(st[name], elapsed))]

\* with monitor.time_operation(name): body. The body took elapsed ticks and
\* raised or not; the finally records, the exception leaves the with
Monitor_time_operation(mon, name, elapsed, raises) ==
    IF ~mon.enabled
    THEN [mon |-> mon, ran |-> TRUE, raised |-> raises]
    ELSE [mon |-> Monitor_record(mon, name, elapsed), ran |-> TRUE, raised |-> raises]

\* get_stats written with setdefault: the entry is created (a mutant)
Monitor_get_stats_setdefault(mon, name) ==
    LET st == IF name \in DOMAIN mon.stats THEN mon.stats
              ELSE DictPut(mon.stats, name, NewStats(name))
    IN [mon |-> [mon EXCEPT !.stats = st], value |-> st[name]]

\* PerformanceMonitor.get_stats(name): self._stats.get(name, TimingStats(name))
Monitor_get_stats(mon, name) ==
    [mon |-> mon,
     value |-> IF name \in DOMAIN mon.stats THEN mon.stats[name] ELSE NewStats(name)]

\* PerformanceMonitor.get_all_stats(): a copy of the dictionary
Monitor_get_all_stats(mon) == [mon |-> mon, value |-> mon.stats]

\* PerformanceMonitor.reset()
Monitor_reset(mon) == [mon EXCEPT !.stats = EmptyDict]

\* the operations timed: update_game_state at every poll, load_gnames once
\* by HazeSDK.__init__
MonNames == {"update_game_state", "load_gnames"}
MaxSamples == 102
MaxInitSamples == 1
Elapsed == {1, 2}

\* how many timings of the name the model records before a reset
SampleBound(name) == IF name = "update_game_state" THEN MaxSamples ELSE MaxInitSamples

\* the n-th poll takes any of Elapsed at the start and from the point where
\* recent_times is full, and one tick in between
FreeSamples == 2

ElapsedAt(name, n) ==
    IF name = "update_game_state" /\ n > FreeSamples /\ n <= RecentCap THEN {1} ELSE Elapsed

PCallRec(op, name, elapsed, raised, value) ==
    [op |-> op, name |-> name, elapsed |-> elapsed, raised |-> raised, value |-> value]

NoPCall == PCallRec("none", "", 0, FALSE, PyNone)

MonParked ==
    /\ stats = EmptyDict
    /\ enabled = TRUE
    /\ samples = [n \in {} |-> <<>>]
    /\ pcall = NoPCall

\* PerformanceMonitor() of HazeSDK.__init__, disabled unless enable_monitoring
MonInit ==
    /\ stats = EmptyDict
    /\ enabled \in BOOLEAN
    /\ samples = [n \in MonNames |-> <<>>]
    /\ pcall = NoPCall

MonNow == Monitor(stats, enabled)

\* the timings the monitor took in
Sampled(name, elapsed) ==
    samples' = IF enabled THEN [samples EXCEPT ![name] = Append(@, elapsed)] ELSE samples

\* monitor.record(name, elapsed)
PM_record ==
    /\ \E name \in MonNames :
         /\ Len(samples[name]) < SampleBound(name)
         /\ \E elapsed \in ElapsedAt(name, Len(samples[name]) + 1) :
              LET mon == Monitor_record(MonNow, name, elapsed)
              IN /\ stats' = mon.stats
                 /\ enabled' = mon.enabled
                 /\ Sampled(name, elapsed)
                 /\ pcall' = PCallRec("record", name, elapsed, FALSE, PyNone)
    /\ UNCHANGED notMonitor

\* with monitor.time_operation(name): ...
PM_time_operation ==
    /\ \E name \in MonNames, raises \in BOOLEAN :
         /\ Len(samples[name]) < SampleBound(name)
         /\ \E elapsed \in ElapsedAt(name, Len(samples[name]) + 1) :
              LET r == Monitor_time_operation(MonNow, name, elapsed, raises)
              IN /\ stats' = r.mon.stats
                 /\ enabled' = r.mon.enabled
                 /\ Sampled(name, elapsed)
                 /\ pcall' = PCallRec("time_operation", name, elapsed, r.raised, PyBool(r.ran))
    /\ UNCHANGED notMonitor

\* monitor.reset()
PM_reset ==
    /\ stats' = Monitor_reset(MonNow).stats
    /\ samples' = [n \in MonNames |-> <<>>]
    /\ pcall' = PCallRec("reset", "", 0, FALSE, PyNone)
    /\ UNCHANGED enabled
    /\ UNCHANGED notMonitor

\* monitor.enable()
PM_enable ==
    /\ enabled' = TRUE
    /\ pcall' = PCallRec("enable", "", 0, FALSE, PyNone)
    /\ UNCHANGED <<stats, samples>>
    /\ UNCHANGED notMonitor

\* monitor.disable()
PM_disable ==
    /\ enabled' = FALSE
    /\ pcall' = PCallRec("disable", "", 0, FALSE, PyNone)
    /\ UNCHANGED <<stats, samples>>
    /\ UNCHANGED notMonitor

MonitorNext == PM_record \/ PM_time_operation \/ PM_reset \/ PM_enable \/ PM_disable

\* ------------------------------------------------------------------------
\* The diagnostics of a MemoryManager: its Cache and its PerformanceMonitor
\* queried between reads. A ratio is the pair (numerator, denominator).
\* ------------------------------------------------------------------------
\* Cache.get_stats()
Cache_get_stats(m) ==
    LET total == m.hits + m.misses
    IN [m |-> m,
        value |-> [hits |-> m.hits, misses |-> m.misses,
                   hit_rate |-> IF total > 0 THEN <<m.hits * 100, total>> ELSE <<0, 1>>,
                   size |-> StatsSize(m.cache)]]

\* MemoryManager.get_cache_stats()
get_cache_stats(m) == Cache_get_stats(m)

\* MemoryManager.get_performance_stats()
get_performance_stats(mon) ==
    LET all == Monitor_get_all_stats(mon)
    IN [mon |-> all.mon,
        value |-> [name \in DOMAIN all.value |->
                     LET st == all.value[name]
                     IN [avg_ms |-> <<avg_time(st)[1] * 1000, avg_time(st)[2]>>,
                         recent_ms |-> <<recent_avg(st)[1] * 1000, recent_avg(st)[2]>>,
                         count |-> st.count,
                         total_ms |-> st.total_time * 1000]]]

\* the reads made and the names asked for; read_string is never recorded
DiagReads == {"read_int", "read_float"}
DiagNames == {"read_int", "read_float", "read_string"}
DiagQueries == {"Cache.get_stats", "get_cache_stats", "get_performance_stats", "get_stats",
                "get_all_stats"}

\* MemoryManager.__init__: the monitor is created enabled
DiagInit ==
    /\ stats = EmptyDict
    /\ enabled = TRUE
    /\ samples = [n \in DiagNames |-> <<>>]
    /\ pcall = NoPCall

\* a query returns: what it left of the cache and of the monitor
DReturn(m, mon) ==
    /\ cache' = m.cache
    /\ hits' = m.hits
    /\ misses' = m.misses
    /\ stats' = mon.stats
    /\ enabled' = mon.enabled
    /\ UNCHANGED <<samples, memVars>>
    /\ UNCHANGED notDiagnostics

\* mm.read_int(address, use_cache) or mm.read_float(address, use_cache),
\* timed by the monitor unless the cache answered
D_read ==
    /\ ncalls < MaxCalls
    /\ \E op \in DiagReads, use_cache \in BOOLEAN, elapsed \in Elapsed :
       \E resp \in Responses(PatternsOf(op)) :
         LET out == ReadPrimitive(MMNow, op, AccAddr, use_cache, resp, now)
             name == Primitive(op).perf
             timed == out.m.perf # perf
             mon == IF timed THEN Monitor_record(MonNow, name, elapsed) ELSE MonNow
         IN /\ cache' = out.m.cache
            /\ hits' = out.m.hits
            /\ misses' = out.m.misses
            /\ perf' = out.m.perf
            /\ ncalls' = ncalls + 1
            /\ mcall' = MCallRec(op, AccAddr, 0, use_cache, out)
            /\ stats' = mon.stats
            /\ enabled' = mon.enabled
            /\ samples' = IF timed THEN [samples EXCEPT ![name] = Append(@, elapsed)]
                          ELSE samples
            /\ pcall' = PCallRec("read", name, elapsed, FALSE, out.value)
    /\ UNCHANGED notDiagnostics

\* mm._cache.get_stats()
D_cache_get_stats ==
    LET r == Cache_get_stats(MMNow)
    IN /\ pcall' = PCallRec("Cache.get_stats", "", 0, FALSE, r.value)
       /\ DReturn(r.m, MonNow)

\* mm.get_cache_stats()
D_get_cache_stats ==
    LET r == get_cache_stats(MMNow)
    IN /\ pcall' = PCallRec("get_cache_stats", "", 0, FALSE, r.value)
       /\ DReturn(r.m, MonNow)

\* mm.get_performance_stats()
D_get_performance_stats ==
    LET r == get_performance_stats(MonNow)
    IN /\ pcall' = PCallRec("get_performance_stats", "", 0, FALSE, r.value)
       /\ DReturn(MMNow, r.mon)

\* mm._perf_monitor.get_stats(name)
D_get_stats ==
    \E name \in DiagNames :
        LET r == Monitor_get_stats(MonNow, name)
        IN /\ pcall' = PCallRec("get_stats", name, 0, FALSE, r.value)
           /\ DReturn(MMNow, r.mon)

\* mm._perf_monitor.get_all_stats()
D_get_all_stats ==
    LET r == Monitor_get_all_stats(MonNow)
    IN /\ pcall' = PCallRec("get_all_stats", "", 0, FALSE, r.value)
       /\ DReturn(MMNow, r.mon)

\* mm.clear_cache()
D_clear_cache ==
    /\ cache' = EmptyDict
    /\ hits' = 0
    /\ misses' = 0
    /\ pcall' = PCallRec("clear_cache", "", 0, FALSE, PyNone)
    /\ UNCHANGED <<stats, enabled, samples, memVars>>
    /\ UNCHANGED notDiagnostics

\* mm.reset_performance_stats()
D_reset ==
    /\ stats' = Monitor_reset(MonNow).stats
    /\ samples' = [n \in DiagNames |-> <<>>]
    /\ pcall' = PCallRec("reset", "", 0, FALSE, PyNone)
    /\ UNCHANGED <<cache, hits, misses, enabled, memVars>>
    /\ UNCHANGED notDiagnostics

DiagnosticsNext ==
    \/ D_read
    \/ D_cache_get_stats
    \/ D_get_cache_stats
    \/ D_get_performance_stats
    \/ D_get_stats
    \/ D_get_all_stats
    \/ D_clear_cache
    \/ D_reset

\* ------------------------------------------------------------------------
\* events/event_manager.py: EventManager, called by one thread
\* ------------------------------------------------------------------------
EventTypes == {"TICK", "KEY_PRESSED"}

\* the callables subscribed: each returns or raises an Exception when it is
\* called, and calls nothing of the EventManager
Handlers == {"on_tick", "on_key_pressed", "on_game_ended"}

\* callback in list
InList(list, callback) == \E i \in 1 .. Len(list) : list[i] = callback

\* list.remove(callback): the first occurrence goes
ListRemove(list, callback) ==
    LET i == CHOOSE k \in 1 .. Len(list) :
                 list[k] = callback /\ \A j \in 1 .. (k - 1) : list[j] # callback
    IN SubSeq(list, 1, i - 1) \o SubSeq(list, i + 1, Len(list))

\* subscribe without the test 'callback not in' (a mutant)
Events_subscribe_again(subs, event_type, callback) ==
    LET s1 == IF event_type \notin DOMAIN subs THEN DictPut(subs, event_type, <<>>) ELSE subs
    IN [s1 EXCEPT ![event_type] = Append(@, callback)]

\* EventManager.subscribe(event_type, callback)
Events_subscribe(subs, event_type, callback) ==
    LET s1 == IF event_type \notin DOMAIN subs THEN DictPut(subs, event_type, <<>>) ELSE subs
    IN IF ~InList(s1[event_type], callback)
       THEN [s1 EXCEPT ![event_type] = Append(@, callback)]
       ELSE s1

\* EventManager.unsubscribe(event_type, callback)
Events_unsubscribe(subs, event_type, callback) ==
    IF event_type \in DOMAIN subs
    THEN IF InList(subs[event_type], callback)
         THEN [subs EXCEPT ![event_type] = ListRemove(@, callback)]
         ELSE subs
    ELSE subs

\* what a dispatch has done so far: the callbacks called, those whose
\* exception was caught and printed, whether an exception left fire
Dispatched(invoked, errors, raised) ==
    [invoked |-> invoked, errors |-> errors, raised |-> raised]

\* the loop of fire without its try: the exception leaves fire (a mutant)
RECURSIVE Dispatch_untried(_, _, _, _)
Dispatch_untried(list, i, raising, acc) ==
    IF i > Len(list) THEN acc
    ELSE IF list[i] \in raising
         THEN Dispatched(Append(acc.invoked, list[i]), acc.errors, TRUE)
         ELSE Dispatch_untried(list, i + 1, raising,
                               Dispatched(Append(acc.invoked, list[i]), acc.errors, FALSE))

\* for callback in self._subscribers[event.type]: try: callback(event)
\* except Exception as e: print(...), from the i-th callback on; raising is
\* the set of callbacks that raise
RECURSIVE Dispatch(_, _, _, _)
Dispatch(list, i, raising, acc) ==
    IF i > Len(list) THEN acc
    ELSE Dispatch(list, i + 1, raising,
                  Dispatched(Append(acc.invoked, list[i]),
                             IF list[i] \in raising THEN Append(acc.errors, list[i])
                             ELSE acc.errors,
                             FALSE))

\* EventManager.fire(event)
Events_fire(subs, event_type, raising) ==
    IF event_type \notin DOMAIN subs
    THEN Dispatched(<<>>, <<>>, FALSE)
    ELSE Dispatch(subs[event_type], 1, raising, Dispatched(<<>>, <<>>, FALSE))

\* the caller's record: the call, the subscriptions before it, and for fire
\* what the dispatch did
ECallRec(op, event_type, callback, before, done) ==
    [op |-> op, type |-> event_type, callback |-> callback, before |-> before,
     invoked |-> done.invoked, errors |-> done.errors, raised |-> done.raised]

\* EventManager.__init__
EvtInit ==
    /\ subscribers = EmptyDict
    /\ ecall = ECallRec("none", "TICK", "on_tick", EmptyDict, Dispatched(<<>>, <<>>, FALSE))

notEvents == <<togVars, cacheVars, seqVars, thrVars, memVars, botVars, locVars, accVars, monVars>>

EM_subscribe ==
    /\ \E event_type \in EventTypes, callback \in Handlers :
          /\ subscribers' = Events_subscribe(subscribers, event_type, callback)
          /\ ecall' = ECallRec("subscribe", event_type, callback, subscribers,
                               Dispatched(<<>>, <<>>, FALSE))
    /\ UNCHANGED notEvents

EM_unsubscribe ==
    /\ \E event_type \in EventTypes, callback \in Handlers :
          /\ subscribers' = Events_unsubscribe(subscribers, event_type, callback)
          /\ ecall' = ECallRec("unsubscribe", event_type, callback, subscribers,
                               Dispatched(<<>>, <<>>, FALSE))
    /\ UNCHANGED notEvents

EM_fire ==
    /\ \E event_type \in EventTypes, raising \in SUBSET Handlers :
          ecall' = ECallRec("fire", event_type, "on_tick", subscribers,
                            Events_fire(subscribers, event_type, raising))
    /\ UNCHANGED subscribers
    /\ UNCHANGED notEvents

\* EventManager.clear()
EM_clear ==
    /\ subscribers' = EmptyDict
    /\ ecall' = ECallRec("clear", "TICK", "on_tick", subscribers, Dispatched(<<>>, <<>>, FALSE))
    /\ UNCHANGED notEvents

EventsNext == EM_subscribe \/ EM_unsubscribe \/ EM_fire \/ EM_clear

\* ------------------------------------------------------------------------
\* main.py: HazeBot.toggle_bot and on_key_pressed, one handler at a time;
\* the clock counts tenths of a second
\* ------------------------------------------------------------------------
MaxClock == 12

\* 0.5 of toggle_bot, 0.1 of time.sleep and 1.0 of join(timeout=1.0), in
\* tenths of a second
Debounce == 5
SleepTenths == 1
JoinTimeout == 10

\* config['bot_toggle_key'] and the key names an event may carry ("": the
\* event has no data or no key)
ToggleKeys == {"F1", "F2"}
KeyNames == {"F1", "F2", ""}

\* the fields of HazeBot the handlers read and write
BotFields(enabled_, last, running, address, thread, landed) ==
    [bot_enabled |-> enabled_, last_toggle_time |-> last, write_running |-> running,
     input_address |-> address, write_thread |-> thread, target |-> landed]

BotNow == BotFields(bot_enabled, last_toggle_time, write_running, input_address, write_thread,
                    target)

\* what a method did: the fields it left, what it did, the calls of
\* stop_writing it made and the time it took
Did(b, outcome, stops, elapsed) ==
    [b |-> b, outcome |-> outcome, stops |-> stops, elapsed |-> elapsed]

\* HazeBot.stop_writing(), run to its end: landed is whether the reset write
\* landed, waited the time the join took (0 when the thread had ended)
StopWriting(b, landed, waited) ==
    IF ~b.write_running
    THEN Did(b, "not_running", 1, 0)
    ELSE LET reset == b.input_address # 0
             joined == b.write_thread # 0
         IN Did([b EXCEPT !.write_running = FALSE,
                          !.target = IF reset /\ landed
                                     THEN Landed(PackVehicleInputs(ResetInputs), "stop_writing")
                                     ELSE @],
                "stopped", 1,
                (IF reset THEN SleepTenths ELSE 0) + (IF joined THEN waited ELSE 0))

\* HazeBot.enable_bot()
EnableBot(b) == Did([b EXCEPT !.bot_enabled = TRUE], "enabled", 0, 0)

\* HazeBot.disable_bot()
DisableBot(b, landed, waited) ==
    LET s == StopWriting([b EXCEPT !.bot_enabled = FALSE], landed, waited)
    IN Did(s.b, "disabled", s.stops, s.elapsed)

\* HazeBot.toggle_bot() called at current_time
ToggleBot(b, current_time, landed, waited) ==
    IF b.last_toggle_time # <<>> /\ current_time - b.last_toggle_time[1] < Debounce
    THEN Did(b, "ignored", 0, 0)
    ELSE LET b1 == [b EXCEPT !.last_toggle_time = <<current_time>>]
         IN IF b.bot_enabled THEN DisableBot(b1, landed, waited) ELSE EnableBot(b1)

\* HazeBot.on_key_pressed(event) called at current_time: the outcomes of the
\* calls of toggle_bot it made, in order
OnKeyPressed(b, key, toggle_key, current_time, landed, waited) ==
    LET first == IF key # "" /\ key = toggle_key
                 THEN ToggleBot(b, current_time, landed, waited)
                 ELSE Did(b, "none", 0, 0)
        second == IF key = "F1"
                  THEN ToggleBot(first.b, current_time + first.elapsed, landed, waited)
                  ELSE Did(first.b, "none", 0, 0)
    IN [b |-> second.b,
        toggles |-> (IF first.outcome = "none" THEN <<>> ELSE <<first.outcome>>)
                      \o (IF second.outcome = "none" THEN <<>> ELSE <<second.outcome>>),
        stops |-> first.stops + second.stops,
        elapsed |-> first.elapsed + second.elapsed]

\* the caller's record: the handler, the key of the event, the configured
\* key, the fields and the clock at the call and what the handler did
KCallRec(op, key, toggle_key, before, at, toggles, stops) ==
    [op |-> op, key |-> key, config |-> toggle_key, before |-> before, at |-> at,
     toggles |-> toggles, stops |-> stops]

NoKCall(toggle_key) ==
    KCallRec("none", "", toggle_key,
             BotFields(FALSE, <<>>, FALSE, 0, 0, Landed(Zeros(32), "none")), 0, <<>>, 0)

\* HazeBot.__init__ with the default configuration: the bot is off and no
\* toggle was made
TogParked ==
    /\ bot_enabled = FALSE
    /\ last_toggle_time = <<>>
    /\ clock = 0
    /\ kcall = NoKCall("F1")

\* HazeBot.__init__ after load_config
TogInit ==
    /\ bot_enabled = FALSE
    /\ last_toggle_time = <<>>
    /\ clock = 0
    /\ \E toggle_key \in ToggleKeys : kcall = NoKCall(toggle_key)

HostParked == EvtInit /\ TogParked

notToggle == <<evtVars, cacheVars, seqVars, thrVars, memVars, locVars, accVars, monVars>>

\* the handler returns: the fields it left and the time it took
KReturn(b, elapsed) ==
    /\ bot_enabled' = b.bot_enabled
    /\ last_toggle_time' = b.last_toggle_time
    /\ write_running' = b.write_running
    /\ input_address' = b.input_address
    /\ write_thread' = b.write_thread
    /\ target' = b.target
    /\ clock' = clock + elapsed
    /\ UNCHANGED <<current_inputs, cpc, cloc, lpc, ldata, created>>
    /\ UNCHANGED notToggle

\* _on_f1_pressed: self.toggle_bot()
K_toggle_bot ==
    \E landed \in BOOLEAN, waited \in 0 .. JoinTimeout :
        LET r == ToggleBot(BotNow, clock, landed, waited)
        IN /\ clock + r.elapsed <= MaxClock
           /\ kcall' = KCallRec("toggle_bot", "", kcall.config, BotNow, clock,
                                <<r.outcome>>, r.stops)
           /\ KReturn(r.b, r.elapsed)

\* on_key_pressed(event)
K_on_key_pressed ==
    \E key \in KeyNames, landed \in BOOLEAN, waited \in 0 .. JoinTimeout :
        LET r == OnKeyPressed(BotNow, key, kcall.config, clock, landed, waited)
        IN /\ clock + r.elapsed <= MaxClock
           /\ kcall' = KCallRec("on_key_pressed", key, kcall.config, BotNow, clock,
                                r.toggles, r.stops)
           /\ KReturn(r.b, r.elapsed)

\* on_tick while the bot is enabled, as far as the writer goes: _write_inputs
\* has found the input address and start_writing has started the thread
K_write_inputs ==
    /\ bot_enabled
    /\ kcall' = KCallRec("_write_inputs", "", kcall.config, BotNow, clock, <<>>, 0)
    /\ KReturn([BotNow EXCEPT !.write_running = TRUE, !.input_address = 5 + InputOffset,
                              !.write_thread = 1], 0)

\* time passes between two handlers
K_wait ==
    /\ clock < MaxClock
    /\ clock' = clock + 1
    /\ UNCHANGED <<bot_enabled, last_toggle_time, kcall>>
    /\ UNCHANGED botVars
    /\ UNCHANGED notToggle

ToggleNext == K_toggle_bot \/ K_on_key_pressed \/ K_write_inputs \/ K_wait
\* ------------------------------------------------------------------------
\* Specifications
\* ------------------------------------------------------------------------
\* the PerformanceMonitor of HazeSDK
InitMonitor == MemInit /\ ThreadsParked /\ BotInit /\ LocParked /\ AccParked /\ MonInit /\ HostParked

SpecMonitor == InitMonitor /\ [][MonitorNext]_vars

\* the diagnostics of a MemoryManager
InitDiagnostics == MemInit /\ ThreadsParked /\ BotInit /\ LocParked /\ AccParked /\ DiagInit /\ HostParked

SpecDiagnostics == InitDiagnostics /\ [][DiagnosticsNext]_vars

\* the sequential Cache
CacheNext == Get \/ Set \/ Invalidate \/ Clear \/ Tick

InitCache == CacheInit /\ ThreadsParked /\ MemParked /\ BotInit /\ LocParked /\ AccParked /\ MonParked /\ HostParked

SpecCache == InitCache /\ [][CacheNext]_vars

\* one Cache shared by the threads
SpecCacheThreads == InitCache /\ [][ThreadsNext]_vars

\* one MemoryManager and its callers
InitMemory == MemInit /\ ThreadsParked /\ BotInit /\ LocParked /\ AccParked /\ MonParked /\ HostParked

SpecMemory == InitMemory /\ [][MemNext]_vars

\* one HazeBot, its calling threads and its write loop threads
InitWriter == MemInit /\ ThreadsParked /\ BotInit /\ LocParked /\ AccParked /\ MonParked /\ HostParked

SpecWriter == InitWriter /\ [][WriterNext]_vars

\* one MemoryManager and the callers of one place of the process memory
InitAccessor == MemInit /\ ThreadsParked /\ BotInit /\ LocParked /\ AccInit /\ MonParked /\ HostParked

SpecAccessor == InitAccessor /\ [][AccessorNext]_vars

\* ------------------------------------------------------------------------
\* core/memory_manager.py: reads with and without the cache and writes, on
\* the memory at AccAddr, as time passes
\* ------------------------------------------------------------------------
MaxAccesses == 3

notCoherence == <<hostVars, default_ttl, seqVars, thrVars, botVars, locVars, monVars>>

\* the call returns: the state it left and the caller's record of it
CoReturn(op, size, use_cache, out) ==
    /\ ncalls' = ncalls + 1
    /\ cache' = out.m.cache
    /\ hits' = out.m.hits
    /\ misses' = out.m.misses
    /\ perf' = out.m.perf
    /\ mcall' = MCallRec(op, AccAddr, size, use_cache, out)
    /\ UNCHANGED now
    /\ UNCHANGED notCoherence

\* a write that landed replaces the bytes of the process
CoWrote(op, out, data) ==
    /\ region' = IF out.value = PyBool(TRUE)
                 THEN [region EXCEPT !.data = data \o SubSeq(@, Len(data) + 1, Len(@))]
                 ELSE region
    /\ acall' = [acall EXCEPT !.wrote = [op |-> op, value |-> out.value,
                                         raised |-> out.raised, writes |-> out.reads]]
    /\ CoReturn(op, Len(data), FALSE, out)

\* self.mm.read_float(AccAddr, use_cache)
co_read_float ==
    /\ ncalls < MaxAccesses
    /\ \E use_cache \in BOOLEAN :
          CoReturn("read_float", 0, use_cache,
                  ReadPrimitive(MMNow, "read_float", AccAddr, use_cache, RegionResp(0, 1), now))
    /\ UNCHANGED accVars

\* self.mm.read_vector3(AccAddr, use_cache)
co_read_vector3 ==
    /\ ncalls < MaxAccesses
    /\ \E use_cache \in BOOLEAN :
          CoReturn("read_vector3", 0, use_cache,
                  ReadComposite(MMNow, "read_vector3", AccAddr, use_cache, RegionResp(0, 3), now))
    /\ UNCHANGED accVars

\* self.mm.write_bytes(AccAddr, data)
co_write_bytes ==
    /\ ncalls < MaxAccesses
    /\ \E data \in {PackWord(FloatTwo), PackWord(0) \o PackWord(FloatOne)}, landed \in BOOLEAN :
          CoWrote("write_bytes", WriteBytes(MMNow, AccAddr, data, landed), data)

\* self.mm.write_vehicle_inputs(AccAddr, inputs)
co_write_vehicle_inputs ==
    /\ ncalls < MaxAccesses
    /\ \E inputs \in Controllers, landed \in BOOLEAN :
          CoWrote("write_vehicle_inputs", WriteVehicleInputs(MMNow, AccAddr, inputs, landed),
                 PackVehicleInputs(inputs))

\* time passes between two calls
co_tick ==
    /\ now < MaxTime
    /\ now' = now + 1
    /\ UNCHANGED <<cache, hits, misses, default_ttl, seqVars, memVars, accVars>>
    /\ UNCHANGED <<thrVars, botVars, locVars, monVars, hostVars>>

CoherenceNext ==
    \/ co_read_float
    \/ co_read_vector3
    \/ co_write_bytes
    \/ co_write_vehicle_inputs
    \/ co_tick

SpecCoherence == InitAccessor /\ [][CoherenceNext]_vars
\* the threads of HazeBot with every started loop thread scheduled again and
\* again: a thread that can take a step is not passed over for ever
SpecWriterFair ==
    /\ InitWriter
    /\ [][WriterNext]_vars
    /\ \A l \in Loops : WF_vars(LoopStep(l))
\* one EventManager and its caller
InitEvents == MemInit /\ ThreadsParked /\ BotInit /\ LocParked /\ AccParked /\ MonParked /\ HostParked

SpecEvents == InitEvents /\ [][EventsNext]_vars

\* the handlers of HazeBot for the toggle key
InitToggle == MemInit /\ ThreadsParked /\ BotInit /\ LocParked /\ AccParked /\ MonParked /\ EvtInit /\ TogInit

SpecToggle == InitToggle /\ [][ToggleNext]_vars
\* the methods of an OffsetScanner, each on its own
InitScanner == MemInit /\ ThreadsParked /\ BotInit /\ ProbeInit /\ AccParked /\ MonParked /\ HostParked

SpecScanner == InitScanner /\ [][ScannerNext]_vars

\* one OffsetScanner on one build of the module
InitLocator == MemInit /\ ThreadsParked /\ BotInit /\ LocInit /\ AccParked /\ MonParked /\ HostParked

SpecLocator == InitLocator /\ [][LocatorNext]_vars

\* ------------------------------------------------------------------------
\* Properties
\* ------------------------------------------------------------------------
\* the ttl a get call is made under: its own when given, else the default
TTLOfCall == IF call.ttl = NoTTL THEN default_ttl ELSE call.ttl

\* time elapsed at the last call since the caller's last set of its key
ElapsedOfCall == call.at - call.log.at

\* C2: Cache TTL law. A get(k) without ttl argument that follows a set(k, v)
\* with no time elapsed returns v; a get(k) made when more than default_ttl
\* has elapsed since the set returns None and removes the entry, so the size
\* reported by get_stats is one less than before that get.
C2_CacheTTLLaw ==
    (call.op = "get" /\ call.ttl = NoTTL /\ call.log.done) =>
        /\ (ElapsedOfCall = 0 => call.result = call.log.value)
        /\ (ElapsedOfCall > default_ttl =>
               /\ call.result = PyNone
               /\ call.key \notin DOMAIN cache
               /\ StatsSize(cache) = StatsSize(call.before) - 1)

\* a get without ttl argument found the entry of a set older than
\* default_ttl, among two entries, and left one
C2_Witness ==
    /\ call.op = "get" /\ call.ttl = NoTTL /\ call.log.done
    /\ ElapsedOfCall > default_ttl
    /\ StatsSize(call.before) = 2
    /\ StatsSize(cache) = 1

\* C3: a value returned by get(key, ttl) is the value of the last set of the
\* key and its age is at most the ttl in effect for the call (the per-call
\* ttl when given, 0 included, else default_ttl); an entry older than that
\* ttl is not returned, an entry exactly as old as the ttl is returned.
C3_NeverReadAfterTTL ==
    (call.op = "get" /\ call.log.done) =>
        /\ (ElapsedOfCall > TTLOfCall => call.result = PyNone)
        /\ (ElapsedOfCall <= TTLOfCall => call.result = call.log.value)

\* a get with ttl=0 under a larger default_ttl met an entry of age 1 and
\* returned None
C3_Witness ==
    /\ call.op = "get" /\ call.log.done
    /\ call.ttl = 0 /\ default_ttl > 0
    /\ ElapsedOfCall = 1
    /\ call.result = PyNone

\* the reads of MemoryManager
ReadOps == Primitives \cup Composites \cup {"read_bytes", "read_string", "read_vehicle_inputs"}

\* a read that the last call issued to the process failed
SomeReadFailed == \E i \in 1 .. Len(mcall.reads) : ~mcall.reads[i].ok

\* C1: every MemoryManager read whose underlying process read fails returns
\* its zero sentinel (0, 0.0, size zero bytes, the empty string, the zero
\* vector, the all-zero input dictionary) and does not raise, with or
\* without use_cache.
C1_ZeroSentinelOnFailure ==
    (mcall.op \in ReadOps /\ SomeReadFailed) =>
        /\ ~mcall.raised
        /\ mcall.value = Sentinel(mcall.op, mcall.size)

\* no thread is inside a Cache method
Quiescent == \A t \in Threads : tpc[t] = "idle"

\* C4: Cache operations are mutually exclusive. Under every interleaving of
\* get, set, invalidate and clear by the threads on one key no call fails
\* (no KeyError between a membership test and the lookup or delete that
\* follows it), and the outcome is that of some sequential order of the
\* calls: in particular, as long as no clear was called, hits + misses is
\* the number of get calls that returned.
C4_MutuallyExclusive ==
    /\ \A t \in Threads : ~tloc[t].raised
    /\ (Quiescent /\ thist.clears = 0) => hits + misses = thist.gets

\* both threads made a get that returned None and then a set, and returned
BothMissedThenSet ==
    \A t \in Threads :
        /\ tpc[t] = "idle"
        /\ tloc[t].op = "set"
        /\ tloc[t].prevop = "get"
        /\ tloc[t].prevres = PyNone

\* C5: when two threads both miss on the key and each then calls
\* set(key, v_t), the entry stored afterwards is the value and the timestamp
\* of the set call that stored last: never a mixture of the two calls, and
\* the key is not absent.
C5_LastWriteWins ==
    BothMissedThenSet =>
        /\ ThreadKey \in DOMAIN cache
        /\ laststore \in Threads
        /\ cache[ThreadKey].value = PyInt(laststore)
        /\ cache[ThreadKey] = tloc[laststore].entry

\* both threads missed and set; the thread that read the clock first stored
\* last, so the surviving entry carries the older timestamp
C5_Witness ==
    /\ BothMissedThenSet
    /\ laststore = 1
    /\ tloc[1].entry.timestamp < tloc[2].entry.timestamp
    /\ cache[ThreadKey] = tloc[1].entry

\* the caller is in a stop_writing that found write_running true and
\* input_address set, its reset write landed, and no start_writing has set
\* write_running again since
StoppedClean(c) ==
    /\ cloc[c].op = "stop_writing"
    /\ cloc[c].reset
    /\ ~cloc[c].restarted

\* C6: when stop_writing is called while write_running is true and
\* input_address is set, then at the moment stop_writing returns the last
\* write made to the input address is the reset buffer; no write of the loop
\* thread lands after the reset write
C6_CleanStop ==
    \A c \in Callers :
        (cpc[c] = "stop_writing_return" /\ StoppedClean(c)) =>
            target = Landed(PackVehicleInputs(ResetInputs), "stop_writing")

\* a step of a start_writing whose check read write_running as true
StartFoundRunning(c) ==
    \/ cpc[c] = "start_writing_check" /\ write_running
    \/ /\ cpc[c] \in {"start_writing_set", "start_writing_thread", "start_writing_start"}
       /\ cloc[c].found

\* C7: start_writing called while write_running is already true is a no-op:
\* it returns at once, constructs and starts no thread, and leaves
\* write_running, write_thread, input_address and current_inputs unchanged
C7_IdempotentStart ==
    [][\A c \in Callers :
          (StartFoundRunning(c) /\ cpc'[c] # cpc[c]) =>
              /\ cpc'[c] = "idle"
              /\ UNCHANGED <<write_running, write_thread, input_address, current_inputs>>
              /\ UNCHANGED <<created, lpc>>]_vars

\* a start_writing has returned on finding the writer running, and the
\* writer is as it was: running, with its thread, its address and its inputs
C7_Witness ==
    \E c \in Callers :
        /\ cpc[c] = "idle"
        /\ cloc[c].ret = "already_running"
        /\ write_running
        /\ write_thread # 0
        /\ Alive(write_thread)
        /\ input_address # 0
        /\ current_inputs.t = "dict"

\* C8: find_offsets returns either (None, None) or the pair of integers
\* (gnames_address - base_address, gobjects_address - base_address) whose
\* absolute difference is EXPECTED_OFFSET_DIFF; never a pair with one None
C8_ValidatedPairOrNothing ==
    fpc = "done" =>
        \/ offsets = <<PyNone, PyNone>>
        \/ /\ offsets[1].t = "int"
           /\ offsets[2].t = "int"
           /\ Abs(offsets[1].v[1] - offsets[2].v[1]) = EXPECTED_OFFSET_DIFF
           /\ offsets[1] = PyInt(gnames_address.v[1] - ModuleBase)
           /\ offsets[2] = PyInt(gobjects_address.v[1] - ModuleBase)

\* find_offsets has returned a pair that needed no correction: GNames lies
\* EXPECTED_OFFSET_DIFF above GObjects (0x1098 and 0x1050)
C8_Witness ==
    /\ fpc = "done"
    /\ offsets = <<PyInt(4248 - ModuleBase), PyInt(4176 - ModuleBase)>>
    /\ Len(tried) >= 2

\* C9: when both addresses A (GNames) and B (GObjects) have resolved, the
\* validation leaves B unchanged, replaces A by B - EXPECTED_OFFSET_DIFF when
\* |A - B| differs from EXPECTED_OFFSET_DIFF and leaves A unchanged when it
\* does not; the offsets returned are those of the pair so obtained
C9_InvariantCorrection ==
    [][(fpc = "validate" /\ Truthy(gnames_address) /\ Truthy(gobjects_address)) =>
          LET A == gnames_address.v[1]
              B == gobjects_address.v[1]
              A2 == IF Abs(A - B) = 72 THEN A ELSE B - 72
          IN /\ gobjects_address' = gobjects_address
             /\ gnames_address' = PyInt(A2)
             /\ Abs(A2 - B) = 72
             /\ offsets' = <<PyInt(A2 - ModuleBase), PyInt(B - ModuleBase)>>
             /\ (A = 4096 /\ B = 4176) => A2 = 4104]_vars

\* a chain yielded A = 0x1000 for GNames, B = 0x1050 was resolved for
\* GObjects, and find_offsets has returned with A corrected to 0x1008
C9_Witness ==
    /\ fpc = "done"
    /\ \E i \in 1 .. Len(tried) :
          Chain(tried[i].chain).table = "GNames" /\ tried[i].address = PyInt(4096)
    /\ gobjects_address = PyInt(4176)
    /\ gnames_address = PyInt(4104)
    /\ offsets = <<PyInt(4104 - ModuleBase), PyInt(4176 - ModuleBase)>>

\* the priority order of the chains of each table
ChainOrder(table) ==
    IF table = "GNames" THEN <<"GNames_Current1", "GNames_Current2", "GNames_Legacy1">>
    ELSE <<"GObjects_Current", "GObjects_Legacy1">>

\* the chains of a table tried so far, in the order they were tried
TriedOf(table) == SelectSeq(tried, LAMBDA e : e.chain \in {ChainOrder(table)[k] : k \in 1 .. Len(ChainOrder(table))})

\* C10: for each table the chains are tried in priority order, a later
\* chain is tried only if every earlier chain of the table was tried and
\* yielded no address, and an address a chain yielded stays the address of
\* the table until the validation
C10_FallbackOrder ==
    \A table \in {"GNames", "GObjects"} :
        LET T == TriedOf(table)
            held == IF table = "GNames" THEN gnames_address ELSE gobjects_address
        IN /\ Len(T) <= Len(ChainOrder(table))
           /\ \A i \in 1 .. Len(T) : T[i].chain = ChainOrder(table)[i]
           /\ \A i \in 1 .. Len(T) : (i < Len(T)) => (T[i].address = PyNone \/ T[i].address = PyInt(0))
           /\ \A i \in 1 .. Len(T) :
                 (fpc # "done" /\ T[i].address # PyNone /\ T[i].address # PyInt(0))
                     => held = T[i].address

\* GNames was resolved by its third chain after the first two yielded
\* nothing, while GObjects was resolved by its first chain and its legacy
\* chain was not tried
C10_Witness ==
    /\ fpc = "validate"
    /\ Len(TriedOf("GNames")) = 3
    /\ TriedOf("GNames")[3].address = PyInt(4096)
    /\ gnames_address = PyInt(4096)
    /\ Len(TriedOf("GObjects")) = 1
    /\ gobjects_address = PyInt(4176)

\* find_offsets returned and one of the two offsets is None
ScanFailed == fpc = "done" /\ (offsets[1] = PyNone \/ offsets[2] = PyNone)

\* C11: when find_offsets yields None for either offset, the construction
\* of HazeSDK stops with RuntimeError in _find_offsets: none of _init_frida,
\* _load_gnames, _find_functions, _setup_hooks runs, the offsets of the SDK
\* stay unset and no read based on them is issued
C11_ScanFailureFatal ==
    ScanFailed =>
        /\ sdk.pc \in {"_find_offsets", "RuntimeError"}
        /\ sdk.executed = <<>>
        /\ sdk.reads = <<>>
        /\ sdk.gnames_offset = PyNone /\ sdk.gobjects_offset = PyNone

\* a scan that tried all five chains failed and the construction raised
C11_Witness == ScanFailed /\ Len(tried) = 5 /\ sdk.pc = "RuntimeError"

\* C12: whatever regions of the module are unreadable and whether or not
\* the module lookup fails, no exception leaves find_offsets: it goes
\* through at most the five chains, always has a next step until it
\* returns, and returns a pair of None or integer
C12_NeverRaises ==
    /\ fpc \in {"module", "validate", "done"} \cup ChainNames
    /\ Len(tried) <= Cardinality(ChainNames)
    /\ fpc \in ChainNames => Len(tried) < Cardinality(ChainNames)
    /\ fpc # "done" =>
          ENABLED (find_offsets_module \/ find_offsets_chain \/ find_offsets_validate)
    /\ fpc = "done" => \A k \in 1 .. 2 : offsets[k].t \in {"None", "int"}

\* find_offsets returned after the read of the image failed in one chain
\* and the read of a displacement field failed in another
C12_Witness ==
    /\ fpc = "done"
    /\ \E i, j \in 1 .. Len(tried) : "scan" \in tried[i].failed /\ "hop1" \in tried[j].failed

\* C16: an extractor whose displacement field (the first, or for the
\* legacy extractors the intermediate or the second) could not be read
\* returns None
C16_UnreadableFieldGivesNone ==
    \A i \in 1 .. Len(tried) :
        tried[i].failed \cap {"hop1", "hop2"} # {} => tried[i].address = PyNone


\* the offsets of the buffer at which the signature of the last call lies
Fits ==
    {i \in 0 .. (Len(image) - Len(probe.pattern)) :
        \A k \in 1 .. Len(probe.pattern) :
            probe.pattern[k] = 0 \/ image[i + k] = probe.pattern[k]}

\* C13: _scan_pattern on a readable buffer at least as long as the
\* signature returns base plus the smallest offset of 0 .. len(buffer) -
\* len(signature), both ends included, at which the signature matches, and
\* None exactly when there is none
C13_FirstMatchOrNone ==
    (probe.op = "_scan_pattern" /\ probe.failed = {} /\ Len(probe.pattern) <= Len(image)) =>
        probe.result =
            IF Fits = {} THEN PyNone
            ELSE PyInt(ModuleBase + (CHOOSE i \in Fits : \A j \in Fits : i <= j))

\* C14: _pattern_matches returns True exactly when every non-wildcard byte
\* of the pattern equals the byte of the buffer at its position, whatever
\* the bytes under the wildcards; AA ?? BB matches 11 AA FF BB 22 at offset
\* 1 and nowhere else
C14_WildcardMatching ==
    probe.op = "_pattern_matches" =>
        /\ (probe.result = PyBool(TRUE)) <=>
              (\A k \in 1 .. Len(probe.pattern) :
                  probe.pattern[k] # 0 =>
                      /\ probe.offset + k <= Len(image)
                      /\ image[probe.offset + k] = probe.pattern[k])
        /\ (image = <<17, 170, 255, 187, 34>> /\ probe.pattern = <<170, 0, 187>>) =>
              ((probe.result = PyBool(TRUE)) <=> probe.offset = 1)

\* the match of AA ?? BB in 11 AA FF BB 22 at offset 1
C14_Witness ==
    /\ probe.op = "_pattern_matches"
    /\ image = <<17, 170, 255, 187, 34>>
    /\ probe.pattern = <<170, 0, 187>>
    /\ probe.offset = 1
    /\ probe.result = PyBool(TRUE)

\* the single-hop extractors and where their displacement field lies
SubOffset == [GObjects_Current |-> 6, GNames_Current1 |-> 3, GNames_Current2 |-> 10]

\* the bytes of the buffer at the displacement field of the last call
FieldBytes ==
    LET f == probe.addr - ModuleBase + SubOffset[probe.name]
    IN SubSeq(image, f + 1, f + 4)

\* C15: a single-hop extractor called on a match address whose field holds
\* the little-endian bytes of a signed displacement d returns field_addr +
\* 4 + d, for d negative, zero or positive
C15_DisplacementDecode ==
    (/\ probe.op = "_extract"
     /\ probe.name \in DOMAIN SubOffset
     /\ probe.failed = {}) =>
        \A d \in Displacements :
            FieldBytes = PackWord(d) =>
                probe.result = PyInt(probe.addr + SubOffset[probe.name] + 4 + d)

\* a negative displacement with all bits set in its top byte was decoded
C15_Witness ==
    /\ probe.op = "_extract"
    /\ probe.name = "GNames_Current2"
    /\ probe.failed = {}
    /\ FieldBytes = PackWord(-3850)
    /\ probe.result = PyInt(probe.addr + 10 + 4 - 3850)

\* read_vector3 and the three read_float have all returned
BothRead == acall.vector # PyNone /\ \A k \in 1 .. 3 : acall.floats[k] # PyNone

\* C17: read_vector3(addr) returns the triple of read_float(addr),
\* read_float(addr + 4), read_float(addr + 8) on the same memory, whether
\* the twelve bytes are readable, unreadable or readable in part
C17_BatchedReadEquivalence ==
    BothRead => \A k \in 1 .. 3 : acall.vector.v[k] = acall.floats[k].v[1]

\* x == y of two floats given by their bits: -0.0 equals 0.0
FloatEq(a, b) == a = b \/ ({a, b} \subseteq {0, -2147483647 - 1})

\* C18: a control-input structure written with write_vehicle_inputs and
\* decoded from the same 32 bytes with read_vehicle_inputs comes back with
\* each of its ten fields at its original value, the three flags exactly
C18_InputsRoundTrip ==
    (acall.written # PyNone /\ acall.decoded # PyNone /\ RegionResp(0, 8).ok) =>
        /\ \A k \in 1 .. 7 : FloatEq(acall.decoded.v[k], acall.written.v[k])
        /\ \A k \in 8 .. 10 : acall.decoded.v[k] = acall.written.v[k]

KeyTypes == Primitives \cup Composites

PrefixOf(typ) == IF typ \in Primitives THEN Primitive(typ).prefix ELSE Composite(typ).prefix

KeyAddrs == {0, 1, 10, 15, 16, 17, 26, 44, 160, 161, 255, 256, 257, 4096, 65536}

\* no two (type, address) pairs have the same key
KeysDistinct ==
    \A t1 \in KeyTypes, t2 \in KeyTypes, a1 \in KeyAddrs, a2 \in KeyAddrs :
        Key(PrefixOf(t1), a1) = Key(PrefixOf(t2), a2) => (t1 = t2 /\ a1 = a2)

\* C20: the keys of read_int, read_uint, read_longlong, read_float,
\* read_uchar, read_vector3 and read_rotator differ for one address and
\* the keys of one type differ for two addresses, so that a read answered
\* from the cache filled by one earlier read is a read of the same type at
\* the same address and returns the value that read cached
C20_KeysEncodeType ==
    [][/\ KeysDistinct
       /\ (/\ ncalls = 1
           /\ ncalls' = 2
           /\ mcall'.op \in KeyTypes
           /\ mcall'.use_cache
           /\ mcall'.reads = <<>>) =>
              /\ mcall.op = mcall'.op
              /\ mcall.address = mcall'.address
              /\ mcall.use_cache
              /\ mcall'.value = mcall.value]_vars

\* a read_rotator answered from the cache that an earlier read_rotator at
\* the same address filled
C20_Witness ==
    /\ ncalls = 2
    /\ mcall.op = "read_rotator"
    /\ mcall.use_cache
    /\ mcall.reads = <<>>

\* read_string(address, max_length) on the MemoryManager m at time t, for
\* each max_length and whatever the process answers to the three reads
C21_Cases(m, address, t) ==
    \A max_length \in {1, 3, 4, 5},
       rp \in Responses({"zero", "five"}),
       rc \in Responses({"zero", "unit", "three", "five", "ff"}),
       rd \in Responses({"text"}) :
        LET out == ReadString(m, address, max_length, rp, rc, rd, t)
            pointer == ReadPrimitive(m, "read_longlong", address, FALSE, rp, t).value.v[1]
            count == ReadPrimitive(m, "read_int", address + 8, FALSE, rc, t).value.v[1]
            chars == SelectSeq(out.reads, LAMBDA r : r.fn = "read_bytes")
        IN IF pointer = 0 \/ count <= 1 \/ count > max_length
           THEN out.value = EmptyStr /\ chars = <<>>
           ELSE chars = <<ReadRec("read_bytes", pointer, (count - 1) * 2, rd.ok)>>

\* C21: read_string returns the empty string when the pointer read at
\* address is 0 or the count read at address + 8 is at most 1 or above
\* max_length, and issues no read of characters then; otherwise it reads
\* (count - 1) * 2 bytes at the pointer. Every call made either read no
\* characters and returned the empty string, or read them once at a pointer
\* that is not 0, for a count above 1 and within its max_length; and the
\* MemoryManager whose first call was a read_string does so at that address
\* whatever the process holds
C21_StringBounds ==
    mcall.op = "read_string" =>
        /\ LET chars == SelectSeq(mcall.reads, LAMBDA r : r.fn = "read_bytes")
           IN IF chars = <<>> THEN mcall.value = EmptyStr
              ELSE /\ Len(chars) = 1
                   /\ chars[1].address # 0
                   /\ \E count \in 2 .. mcall.size : chars[1].size = (count - 1) * 2
        /\ ncalls = 1 => C21_Cases(MMNow, mcall.address, now)

\* a read_string that found a count of 3 within max_length 4 and read the
\* four bytes of its two characters
C21_Witness ==
    /\ mcall.op = "read_string"
    /\ Len(mcall.reads) = 3
    /\ mcall.reads[3] = ReadRec("read_bytes", 5, 4, TRUE)
    /\ Len(mcall.value.v) = 2

\* C22: every Cache.get increments exactly one counter, hits when it returns
\* the stored value and misses when the key is absent or its entry expired
\* (the entry is removed then); set and invalidate change neither counter;
\* hits + misses is the number of get calls since construction or the last
\* clear
C22_Step ==
    IF call'.op = "get" /\ gets' = gets + 1
    THEN LET key == call'.key
             stored == /\ key \in DOMAIN cache
                       /\ now - cache[key].timestamp <= EffectiveTTL(call'.ttl, default_ttl)
         IN IF stored
            THEN /\ call'.result = cache[key].value
                 /\ hits' = hits + 1 /\ misses' = misses
                 /\ cache' = cache
            ELSE /\ call'.result = PyNone
                 /\ misses' = misses + 1 /\ hits' = hits
                 /\ key \notin DOMAIN cache'
    ELSE IF call'.op \in {"set", "invalidate"} /\ now' = now
         THEN hits' = hits /\ misses' = misses
         ELSE TRUE

C22_HitMissAccounting ==
    /\ [](hits + misses = gets)
    /\ [][C22_Step]_vars

\* an expired entry was looked up after a hit: removed, one miss, one hit
C22_Witness ==
    /\ call.op = "get"
    /\ call.key \in DOMAIN call.before
    /\ call.result = PyNone
    /\ call.key \notin DOMAIN cache
    /\ hits = 1
    /\ misses = 1
    /\ gets = 2
\* C24: while the monitor is disabled, time_operation and record leave
\* _stats as it is, the wrapped operation runs and its exception leaves the
\* with; enable and disable keep the statistics, and a recording made while
\* enabled adds one sample to the entry of its name and to no other
C24_DisabledCalls ==
    ~enabled =>
        \A name \in MonNames, elapsed \in Elapsed, raises \in BOOLEAN :
            /\ Monitor_record(MonNow, name, elapsed) = MonNow
            /\ Monitor_time_operation(MonNow, name, elapsed, raises)
                 = [mon |-> MonNow, ran |-> TRUE, raised |-> raises]

C24_Step ==
    /\ pcall'.op \in {"enable", "disable"} => stats' = stats
    /\ pcall'.op \in {"record", "time_operation"} =>
         IF ~enabled THEN stats' = stats /\ enabled' = enabled
         ELSE LET name == pcall'.name
                  before == IF name \in DOMAIN stats THEN stats[name].count ELSE 0
              IN /\ stats'[name].count = before + 1
                 /\ \A n \in DOMAIN stats \ {name} : stats'[n] = stats[n]

C24_DisabledIsNoOp ==
    /\ []C24_DisabledCalls
    /\ [][C24_Step]_vars

\* a timed operation raised while the monitor was disabled, after timings
\* had been recorded
C24_Witness ==
    /\ ~enabled
    /\ pcall.op = "time_operation"
    /\ pcall.raised
    /\ pcall.value = PyBool(TRUE)
    /\ "update_game_state" \in DOMAIN stats
    /\ stats["update_game_state"].count = Len(samples["update_game_state"])
    /\ stats["update_game_state"].count = 2

\* C30: for every operation name the TimingStats has the count, the sum, the
\* minimum and the maximum of the samples recorded since the last reset, and
\* recent_times holds the last min(count, 100) of them in arrival order;
\* reset() removes every TimingStats
C30_StatsOf(name) ==
    LET xs == samples[name]
        n == Len(xs)
    IN IF n = 0 THEN name \notin DOMAIN stats
       ELSE /\ name \in DOMAIN stats
            /\ LET s == stats[name]
                   kept == Min(n, 100)
               IN /\ s.count = n
                  /\ s.total_time = SumFrom(xs, 1)
                  /\ \E i \in 1 .. n : s.min_time = <<xs[i]>>
                  /\ \A i \in 1 .. n : s.min_time[1] <= xs[i]
                  /\ \E i \in 1 .. n : s.max_time = xs[i]
                  /\ \A i \in 1 .. n : s.max_time >= xs[i]
                  /\ s.recent_times = SubSeq(xs, n - kept + 1, n)
                  /\ Len(s.recent_times) <= 100

C30_TimingStatsInvariant ==
    /\ \A name \in MonNames : C30_StatsOf(name)
    /\ pcall.op = "reset" => stats = EmptyDict

\* 101 samples of update_game_state: the first, of 2 ticks, has left
\* recent_times
C30_Witness ==
    /\ "update_game_state" \in DOMAIN stats
    /\ stats["update_game_state"].count = 101
    /\ Len(stats["update_game_state"].recent_times) = 100
    /\ samples["update_game_state"][1] = 2
    /\ stats["update_game_state"].recent_times[1] = 1
    /\ stats["update_game_state"].recent_times[100] = 2
    /\ stats["update_game_state"].max_time = 2
    /\ stats["update_game_state"].min_time = <<1>>
\* C23: Cache.get_stats, MemoryManager.get_cache_stats,
\* MemoryManager.get_performance_stats, PerformanceMonitor.get_stats(name),
\* also for a name never recorded, and get_all_stats leave the cache
\* entries, the hit and miss counters and the recorded statistics as they
\* were
C23_Step ==
    pcall'.op \in DiagQueries => UNCHANGED <<cache, hits, misses, stats, enabled>>

C23_QueriesHaveNoEffect == [][C23_Step]_vars

\* get_stats was asked for a name never recorded while the cache and the
\* monitor held an entry
C23_Witness ==
    /\ pcall.op = "get_stats"
    /\ pcall.name = "read_string"
    /\ pcall.value = NewStats("read_string")
    /\ DOMAIN stats = {"read_int"}
    /\ DOMAIN cache # {}
    /\ misses = 1
\* C25: the 32 bytes write_vehicle_inputs leaves in the process hold the
\* seven floats in the order throttle, steer, pitch, yaw, roll,
\* dodge_forward, dodge_right, then the flag word with handbrake on bit 0,
\* jump on bit 1, boost on bit 2 and no other bit set
C25_WriteMirrorsReadLayout ==
    (acall.wrote.op = "write_vehicle_inputs" /\ acall.written # PyNone) =>
        LET w == acall.written.v
            flags == Unsigned(Slice(region.data, 28, 32))
        IN /\ Len(region.data) = 32
           /\ \A k \in 1 .. 7 :
                FloatEq(Signed32(Slice(region.data, 4 * (k - 1), 4 * k)), w[k])
           /\ flags = w[8] + 2 * w[9] + 4 * w[10]
           /\ flags < 8
\* the four bytes of the buffer at address f, <<>> when they are not all in it
BytesAt(f) ==
    IF f >= ModuleBase /\ f + 4 <= ModuleBase + Len(image)
    THEN SubSeq(image, f - ModuleBase + 1, f - ModuleBase + 4)
    ELSE <<>>

\* the legacy extractors: the sub-offset of the first field and the delta
LegacyHops ==
    [GNames_Legacy1 |-> [sub_offset |-> 3, delta |-> 39],
     GObjects_Legacy1 |-> [sub_offset |-> 1, delta |-> 101]]

\* C26: a legacy extractor returns f2 + 4 + i32(f2), with f2 = target1 +
\* delta + 3, target1 = f1 + 4 + i32(f1) and f1 = match_addr + sub_offset;
\* sub_offset 3 and delta 0x27 for GNames, sub_offset 1 and delta 0x65 for
\* GObjects, both displacements signed
C26_SecondHop ==
    (/\ probe.op = "_extract"
     /\ probe.name \in DOMAIN LegacyHops
     /\ probe.failed = {}) =>
        LET h == LegacyHops[probe.name]
            f1 == probe.addr + h.sub_offset
        IN \A d1 \in -120 .. 8, d2 \in LegacyDisplacements \cup {-1} :
             LET target1 == f1 + 4 + d1
                 f2 == target1 + h.delta + 3
             IN (BytesAt(f1) = PackWord(d1) /\ BytesAt(f2) = PackWord(d2)) =>
                    probe.result = PyInt(f2 + 4 + d2)

\* _extract_legacy_gobjects went back 100 bytes, on by 0x65 and decoded a
\* negative second displacement
C26_Witness ==
    /\ probe.op = "_extract"
    /\ probe.name = "GObjects_Legacy1"
    /\ probe.failed = {}
    /\ probe.addr = ModuleBase
    /\ BytesAt(ModuleBase + 1) = PackWord(-100)
    /\ BytesAt(ModuleBase + 9) = PackWord(-3850)
    /\ probe.result = PyInt(ModuleBase + 9 + 4 - 3850)
\* the scans of the run whose module lookup succeeded: each issued
\* self.mm.read_bytes(base, size)
ModuleReads == {i \in 1 .. Len(tried) : "module" \notin tried[i].failed}

\* C27: during one call of find_offsets the read of the whole module,
\* read_bytes(base, size), is issued once and not again, whatever the number
\* of signatures scanned for
C27_ImageCapturedOnce ==
    fpc = "done" => Cardinality(ModuleReads) <= 1
\* the cache holds an unexpired entry under the key of the call being made
Held(typ, address) ==
    LET key == Key(PrefixOf(typ), address)
    IN key \in DOMAIN cache /\ now - cache[key].timestamp <= MMDefaultTTL

\* C28: a cached read called with use_cache returns the stored value and
\* issues no read of the process when the cache holds an unexpired entry
\* under its key; otherwise it issues one read and stores its result under
\* the key when the read succeeded; without use_cache the cache is neither
\* consulted nor modified
C28_Step ==
    (ncalls' = ncalls + 1 /\ mcall'.op \in KeyTypes) =>
        LET key == Key(PrefixOf(mcall'.op), mcall'.address)
        IN IF mcall'.use_cache
           THEN IF Held(mcall'.op, mcall'.address)
                THEN /\ mcall'.value = cache[key].value
                     /\ mcall'.reads = <<>>
                ELSE /\ Len(mcall'.reads) = 1
                     /\ mcall'.reads[1].ok =>
                          /\ key \in DOMAIN cache'
                          /\ cache'[key] = CacheEntry(mcall'.value, now)
           ELSE /\ cache' = cache
                /\ hits' = hits
                /\ misses' = misses

C28_CachedReadContract == [][C28_Step]_vars

\* a read_float answered from the cache after the read that filled it
C28_Witness ==
    /\ mcall.op = "read_float"
    /\ mcall.use_cache
    /\ mcall.reads = <<>>
    /\ mcall.value = PyFloat(FloatMinusOne)
    /\ hits = 1
    /\ misses = 1
    /\ ncalls = 2

\* C29: read_vector3 and read_rotator, when the cache does not answer, issue
\* one read of 12 bytes at the address, and read_vehicle_inputs issues one
\* read of 32 bytes; none of them reads field by field
C29_Step ==
    ncalls' = ncalls + 1 =>
        /\ (/\ mcall'.op \in Composites
            /\ ~(mcall'.use_cache /\ Held(mcall'.op, mcall'.address))) =>
               \E ok \in BOOLEAN :
                   mcall'.reads = <<ReadRec("read_bytes", mcall'.address, 12, ok)>>
        /\ mcall'.op = "read_vehicle_inputs" =>
               \E ok \in BOOLEAN :
                   mcall'.reads = <<ReadRec("read_bytes", mcall'.address, 32, ok)>>

C29_OneReadPerComposite == [][C29_Step]_vars

\* read_vehicle_inputs decoded a structure from one read of 32 bytes
C29_Witness ==
    /\ mcall.op = "read_vehicle_inputs"
    /\ mcall.reads = <<ReadRec("read_bytes", mcall.address, 32, TRUE)>>
    /\ mcall.value # ZeroInputs
\* C31: a cached read called with use_cache whose read of the process
\* fails returns the zero sentinel and stores nothing under its key, so the
\* next call for the key reads the process afresh
C31_Step ==
    (/\ ncalls' = ncalls + 1
     /\ mcall'.op \in KeyTypes
     /\ mcall'.use_cache
     /\ mcall'.reads # <<>>
     /\ ~mcall'.reads[1].ok) =>
        /\ mcall'.value = Sentinel(mcall'.op, 0)
        /\ Key(PrefixOf(mcall'.op), mcall'.address) \notin DOMAIN cache'

C31_FailedReadNotCached == [][C31_Step]_vars

\* the bytes of the process where read_float(AccAddr) looks, as a float
FloatAtAccAddr == PyFloat(Signed32(SubSeq(region.data, 1, 4)))

\* C32: write_bytes and write_vehicle_inputs leave every cache entry and
\* both counters as they were, and a read with use_cache of an address whose
\* entry is within the ttl returns the entry, whatever was written since
C32_Step ==
    /\ (/\ ncalls' = ncalls + 1
        /\ mcall'.op \in {"write_bytes", "write_vehicle_inputs"}) =>
           /\ cache' = cache
           /\ hits' = hits
           /\ misses' = misses
    /\ (/\ ncalls' = ncalls + 1
        /\ mcall'.op \in {"read_float", "read_vector3"}
        /\ mcall'.use_cache
        /\ Held(mcall'.op, AccAddr)) =>
           /\ mcall'.value = cache[Key(PrefixOf(mcall'.op), AccAddr)].value
           /\ mcall'.reads = <<>>

C32_WritesLeaveCache == [][C32_Step]_vars

\* a write landed, and the read_float with use_cache after it returned the
\* value cached before, which the process no longer holds
C32_Witness ==
    /\ acall.wrote.value = PyBool(TRUE)
    /\ mcall.op = "read_float"
    /\ mcall.use_cache
    /\ mcall.reads = <<>>
    /\ mcall.value = PyFloat(FloatOne)
    /\ FloatAtAccAddr # PyFloat(FloatOne)

\* C33: the age of an entry runs from its last set: a get that hits leaves
\* the dictionary as it was, every entry carries the value and the time of
\* the last set of its key, a get returns nothing once more than the ttl
\* has elapsed since that set, and a set puts the value at age zero and
\* leaves the other keys alone
C33_Step ==
    /\ (call'.op = "get" /\ gets' = gets + 1 /\ call'.result # PyNone) => cache' = cache
    /\ (call'.op = "get" /\ gets' = gets + 1 /\ setlog[call'.key].done
          /\ now - setlog[call'.key].at > EffectiveTTL(call'.ttl, default_ttl)) =>
           call'.result = PyNone
    /\ (call'.op = "set" /\ gets' = gets /\ now' = now) =>
           /\ cache'[call'.key] = CacheEntry(call'.arg, now)
           /\ \A k \in CacheKeys \ {call'.key} :
                 /\ (k \in DOMAIN cache') = (k \in DOMAIN cache)
                 /\ k \in DOMAIN cache => cache'[k] = cache[k]

C33_AgeFromLastSet ==
    /\ [](\A k \in DOMAIN cache :
             /\ setlog[k].done
             /\ cache[k] = CacheEntry(setlog[k].value, setlog[k].at))
    /\ [][C33_Step]_vars

\* two gets hit the entry, and the third, made when more than the ttl had
\* elapsed since the set, returned None
C33_Witness ==
    /\ call.op = "get"
    /\ call.key \in DOMAIN call.before
    /\ call.log.done
    /\ call.result = PyNone
    /\ hits = 2
    /\ misses = 1
    /\ gets = 3
    /\ DOMAIN call.before = {call.key}
    /\ \A k \in CacheKeys \ {call.key} : ~setlog[k].done

\* the loop thread found write_running true at its last test and is in the
\* body of its while
Observing(l) == lpc[l] \in {"if", "pack", "write"}

\* the keyboard thread has called nothing but stop_writing, once at most; the
\* tick callback thread calls only _write_inputs and stop_writing
KeyboardOnlyStops ==
    \/ cloc["keyboard"].n = 0
    \/ /\ cloc["keyboard"].n = 1
       /\ \/ cloc["keyboard"].op = "stop_writing"
          \/ /\ cloc["keyboard"].op = "none"
             /\ cloc["keyboard"].ret \in {"stopped", "not_running"}

\* C34: with start_writing reached only from _write_inputs on the tick
\* callback thread and stop_writing from the keyboard thread, no two
\* _continuous_write_loop threads are in the body of their loop, having
\* found write_running true, while write_running is true
C34_SingleWriteLoop ==
    (KeyboardOnlyStops /\ write_running) =>
        Cardinality({l \in Loops : Observing(l)}) <= 1

\* the inputs dictionaries with boolean handbrake, jump and boost
BooleanInputs ==
    {ControllerDict(throttle, steer, pitch, yaw, roll, handbrake, jump, boost) :
        throttle \in {0, FloatOne, FloatMinusOne}, steer \in {0, FloatOne, FloatMinusOne},
        pitch \in {0, FloatOne, FloatMinusOne}, yaw \in {0, FloatOne, FloatMinusOne},
        roll \in {0, FloatOne, FloatMinusOne},
        handbrake \in {0, 1}, jump \in {0, 1}, boost \in {0, 1}}

\* the loop packs the 32 bytes write_vehicle_inputs packs for the dictionary
\* it found, and writes the bytes it packed
C35_Step ==
    \A l \in Loops :
        /\ (lpc[l] = "pack" /\ lpc'[l] = "write") =>
               /\ ldata'[l] = PackVehicleInputs(current_inputs)
               /\ Len(ldata'[l]) = 32
        /\ (lpc[l] = "write" /\ lpc'[l] = "while" /\ target' # target) =>
               target' = Landed(ldata[l], "_continuous_write_loop")

\* C35: for every inputs dictionary with boolean handbrake, jump and boost
\* the 32 bytes _continuous_write_loop packs and writes are the 32 bytes
\* write_vehicle_inputs packs for the same dictionary
C35_LoopWritesSameBytes ==
    /\ []((created = 1 /\ lpc[1] = "new") =>
             \A inputs \in BooleanInputs : LoopPack(inputs) = PackVehicleInputs(inputs))
    /\ [][C35_Step]_vars

\* the write of a loop landed: the bytes at the input address are those
\* write_vehicle_inputs packs for the current inputs, with boost on
C35_Witness ==
    /\ target.by = "_continuous_write_loop"
    /\ current_inputs.t = "dict"
    /\ current_inputs.v[8] = 1
    /\ target.data = PackVehicleInputs(current_inputs)
    /\ Len(target.data) = 32

\* the loop thread ends only at its while, on finding write_running false;
\* it enters the body again only on finding it true; an exception of the
\* packing or of the write sends it back to the while
C36_Step ==
    \A l \in Loops :
        /\ (lpc[l] # "dead" /\ lpc'[l] = "dead") => (lpc[l] = "while" /\ ~write_running)
        /\ (lpc[l] = "while" /\ lpc'[l] = "if") => write_running
        /\ (lpc[l] \in {"if", "pack", "write"} /\ lpc'[l] # lpc[l]) =>
               lpc'[l] \in {"pack", "write", "while"}
        /\ (lpc[l] = "write" /\ lpc'[l] # lpc[l]) => lpc'[l] = "while"

\* C36: under fair scheduling of the loop thread, once write_running is
\* false the thread ends unless write_running is set again; it ends only by
\* finding write_running false at its while, never by an exception, and it
\* writes at most once between two tests of the flag
C36_StopTerminatesLoop ==
    /\ \A l \in Loops : (Alive(l) /\ ~write_running) ~> (lpc[l] = "dead" \/ write_running)
    /\ [][C36_Step]_vars

\* _reset_game_state stopped the writing and took the address and the
\* inputs away; the loop thread, whose write landed after the reset write,
\* has ended
C36_Witness ==
    /\ ~write_running
    /\ cloc["frida"].ret = "reset"
    /\ input_address = 0
    /\ current_inputs = PyNone
    /\ target.by = "_continuous_write_loop"
    /\ \E l \in Loops : lpc[l] = "dead"
    /\ \A l \in Loops : ~Alive(l)

\* the list of an event type, empty when the type was never subscribed to
ListOf(subs, event_type) == IF event_type \in DOMAIN subs THEN subs[event_type] ELSE <<>>

NoDuplicates(list) == \A i, j \in 1 .. Len(list) : list[i] = list[j] => i = j

C38_CallbackIsolation ==
    (ecall.op = "fire" /\ (ecall.errors # <<>> \/ ecall.raised)) =>
        /\ ~ecall.raised
        /\ subscribers = ecall.before
        /\ ecall.invoked = ListOf(ecall.before, ecall.type)

\* the first of three subscribers raised and the two after it were called
C38_Witness ==
    /\ ecall.op = "fire"
    /\ Len(ecall.invoked) = 3
    /\ ecall.errors = <<ecall.invoked[1]>>
    /\ ~ecall.raised

\* the toggle_bot call made at the clock of the record falls within the
\* debounce of the last accepted toggle
Debounced(b, at) == b.last_toggle_time # <<>> /\ at - b.last_toggle_time[1] < Debounce

\* the number of disable_bot calls among the outcomes
RECURSIVE Disables(_)
Disables(toggles) ==
    IF toggles = <<>> THEN 0
    ELSE (IF Head(toggles) = "disabled" THEN 1 ELSE 0) + Disables(Tail(toggles))

\* a toggle_bot call within the debounce leaves bot_enabled, the writer and
\* the timestamp as they were
C39_IgnoredToggle ==
    (kcall.op = "toggle_bot" /\ Debounced(kcall.before, kcall.at)) =>
        /\ kcall.toggles = <<"ignored">>
        /\ BotNow = kcall.before

\* every disable_bot made by a toggle called stop_writing
C39_DisableStops ==
    kcall.op \in {"toggle_bot", "on_key_pressed"} => kcall.stops = Disables(kcall.toggles)

====
